---- MODULE Spec2Model ----
(***************************************************************************)
(* AnTeML: the element state machines (src/anteml/elements.py), the value  *)
(* grammars (src/anteml/attributes.py) and the dispatch protocol of the    *)
(* parser (src/anteml/parser.py), driven by tag events as the tokenizer    *)
(* (html.parser.HTMLParser) delivers them.                                 *)
(*                                                                         *)
(* Text that the code inspects character by character (tag names,          *)
(* attribute names and values) is a sequence of one-character strings;     *)
(* output fragments are strings.  ESC stands for the byte 0x1b.            *)
(***************************************************************************)
EXTENDS Integers, Sequences, FiniteSets, TLC

\* ------------------------------------------------------------------ bounds

\* Deepest nesting of one tag that a run opens.
MaxDepth == 2

\* The longest digit string after D, and the longest after X, that a colour
\* value under test holds.
MaxDigits == 4

MaxHexLen == 7

\* The longest of the arbitrary words under test.
MaxWordLen == 3

\* The deepest nesting of open tags in the document of a second parser.
MaxOtherDepth == 1

\* ------------------------------------------------------------- text helpers

ESC == "^["

None == <<>>

Some(x) == <<x>>

UpperChars == <<"A","B","C","D","E","F","G","H","I","J","K","L","M",
                "N","O","P","Q","R","S","T","U","V","W","X","Y","Z">>

LowerChars == <<"a","b","c","d","e","f","g","h","i","j","k","l","m",
                "n","o","p","q","r","s","t","u","v","w","x","y","z">>

\* The lower-case letter of each capital letter.
LowerMap ==
    [c \in {UpperChars[i] : i \in 1..26} |->
        LowerChars[CHOOSE i \in 1..26 : UpperChars[i] = c]]

\* str.lower() on one character.
LowerChar(c) == IF c \in DOMAIN LowerMap THEN LowerMap[c] ELSE c

\* str.lower()
lower(s) == [i \in 1..Len(s) |-> LowerChar(s[i])]

RECURSIVE Str(_)
\* The string spelled by a sequence of characters.
Str(s) == IF s = <<>> THEN "" ELSE s[1] \o Str(Tail(s))

Digits == <<"0","1","2","3","4","5","6","7","8","9">>

HexDigits == <<"0","1","2","3","4","5","6","7","8","9","a","b","c","d","e","f">>

IsDigit(c) == c \in {Digits[i] : i \in 1..10}

\* The value of each hex digit.
HexMap ==
    [c \in {HexDigits[i] : i \in 1..16} |->
        (CHOOSE i \in 1..16 : HexDigits[i] = c) - 1]

IsHexDigit(c) == LowerChar(c) \in DOMAIN HexMap

\* int(c, 16) of one hex digit.
HexVal(c) == HexMap[LowerChar(c)]

RECURSIVE IntToStr(_)
\* str(n) for n >= 0, as an f-string renders an int.
IntToStr(n) ==
    IF n < 10 THEN Digits[n + 1]
    ELSE IntToStr(n \div 10) \o Digits[(n % 10) + 1]

RECURSIVE lstrip0(_)
\* str.lstrip("0")
lstrip0(s) == IF s # <<>> /\ s[1] = "0" THEN lstrip0(Tail(s)) ELSE s

\* ---------------------------------------------------------- value grammars

\* Color.names: name -> (fg, bg)
Color_names ==
    [black   |-> << <<"3","0">>, <<"4","0">> >>,
     red     |-> << <<"3","1">>, <<"4","1">> >>,
     green   |-> << <<"3","2">>, <<"4","2">> >>,
     yellow  |-> << <<"3","3">>, <<"4","3">> >>,
     blue    |-> << <<"3","4">>, <<"4","4">> >>,
     magenta |-> << <<"3","5">>, <<"4","5">> >>,
     cyan    |-> << <<"3","6">>, <<"4","6">> >>,
     white   |-> << <<"3","7">>, <<"4","7">> >>,
     default |-> << <<"3","9">>, <<"4","9">> >>]

\* A decimal_pattern that takes any one to three digits.
decimal_pattern_any(v) ==
    /\ Len(v) \in {2, 3, 4}
    /\ LowerChar(v[1]) = "d"
    /\ \A i \in 2..Len(v) : IsDigit(v[i])

\* Color.decimal_pattern, full match, IGNORECASE:
\*   D(\d{1,2} | [01]?\d{2} | 2[0-4]\d | 25[0-5])
decimal_pattern(v) ==
    /\ Len(v) >= 2
    /\ LowerChar(v[1]) = "d"
    /\ LET d == Tail(v) IN
        \/ Len(d) \in {1, 2} /\ \A i \in 1..Len(d) : IsDigit(d[i])
        \/ /\ Len(d) = 3
           /\ d[1] \in {"0", "1"}
           /\ IsDigit(d[2]) /\ IsDigit(d[3])
        \/ /\ Len(d) = 3
           /\ d[1] = "2"
           /\ d[2] \in {"0", "1", "2", "3", "4"}
           /\ IsDigit(d[3])
        \/ /\ Len(d) = 3
           /\ d[1] = "2" /\ d[2] = "5"
           /\ d[3] \in {"0", "1", "2", "3", "4", "5"}

\* Color.hex_pattern, full match, IGNORECASE: X([0-9A-F]{3} | [0-9A-F]{6})
hex_pattern(v) ==
    /\ Len(v) \in {4, 7}
    /\ LowerChar(v[1]) = "x"
    /\ \A i \in 2..Len(v) : IsHexDigit(v[i])

\* A doubling that leaves the digits as they are.
double_each_not(v) == v

\* "".join([f"{c}{c}" for c in v])
double_each(v) == [i \in 1..(2 * Len(v)) |-> v[(i + 1) \div 2]]

\* The result Color.parse computes for a lower-cased value that is not
\* cached: None, or <<type, fg_value, bg_value>>, the two values as text.
Color_compute(value) ==
    IF Str(value) \in DOMAIN Color_names
    THEN Some(<<"name", Color_names[Str(value)][1], Color_names[Str(value)][2]>>)
    ELSE IF decimal_pattern(value)
    THEN LET v == lstrip0(Tail(value))
         IN  Some(<<"decimal", v, v>>)
    ELSE IF hex_pattern(value)
    THEN LET m == lower(Tail(value))
             v == IF Len(m) = 3 THEN double_each(m) ELSE m
         IN  Some(<<"hex", v, v>>)
    ELSE None

\* A Color.parse that answers None for a value that is cached.
Color_parse_forgets(cache, raw) ==
    LET value == Str(lower(raw)) IN
    IF value \in DOMAIN cache
    THEN [ret |-> None, cache |-> cache]
    ELSE LET c2 == [k \in DOMAIN cache \cup {value} |->
                       IF k = value THEN Color_compute(lower(raw)) ELSE cache[k]]
         IN  [ret |-> c2[value], cache |-> c2]

\* A Color.parse that keys the cache by the value as written.
Color_parse_raw_key(cache, raw) ==
    LET value == Str(raw) IN
    IF value \in DOMAIN cache
    THEN [ret |-> cache[value], cache |-> cache]
    ELSE LET c2 == [k \in DOMAIN cache \cup {value} |->
                       IF k = value THEN Color_compute(lower(raw)) ELSE cache[k]]
         IN  [ret |-> c2[value], cache |-> c2]

\* Color.parse(value) on the process-wide cache: the result and the cache
\* afterwards.  A cached key is answered from the cache.
Color_parse(cache, raw) ==
    LET value == Str(lower(raw)) IN
    IF value \in DOMAIN cache
    THEN [ret |-> cache[value], cache |-> cache]
    ELSE LET c2 == [k \in DOMAIN cache \cup {value} |->
                       IF k = value THEN Color_compute(lower(raw)) ELSE cache[k]]
         IN  [ret |-> c2[value], cache |-> c2]

\* Color.clear_cache()
Color_clear_cache == [k \in {} |-> None]

\* FontWeight.weights
FontWeight_weights ==
    [bold |-> "1", normal |-> "22", light |-> "2", default |-> "22"]

\* FontWeight.parse(value): None or <<code>>
FontWeight_parse(raw) ==
    LET value == Str(lower(raw)) IN
    IF value \in DOMAIN FontWeight_weights
    THEN Some(FontWeight_weights[value])
    ELSE None

\* Boolean.truthy_values / Boolean.falsy_values
Boolean_truthy_values == {"1", "yes", "on", "true"}

Boolean_falsy_values == {"0", "no", "off", "false"}

\* A Boolean.parse without the third outcome: every value that is not truthy
\* is false.
Boolean_parse_coerces(raw) ==
    LET value == Str(lower(raw)) IN
    IF value \in Boolean_truthy_values THEN Some(TRUE) ELSE Some(FALSE)

\* Boolean.parse(value): None, <<TRUE>> or <<FALSE>>
Boolean_parse(raw) ==
    LET value == Str(lower(raw)) IN
    IF value \in Boolean_truthy_values THEN Some(TRUE)
    ELSE IF value \in Boolean_falsy_values THEN Some(FALSE)
    ELSE None

\* ScreenMode.modes as the dict literal lists it: <<key, code>> in source
\* order.  A key that is listed twice keeps the value listed last.
ScreenMode_entries ==
    << <<"40x24m", "0">>,    <<"40x25c", "1">>,    <<"80x25m", "2">>,
       <<"80x25c", "3">>,    <<"320x200c4", "4">>, <<"320x200m", "5">>,
       <<"640X200m", "6">>,  <<"320x200c", "13">>, <<"640x200c", "14">>,
       <<"640x350m", "15">>, <<"640x350c", "16">>, <<"640x480m", "17">>,
       <<"640x480c", "18">>, <<"320x200c", "19">>  >>

\* ScreenMode.modes[key][0] for a key of the dict.
ScreenMode_modes ==
    [k \in {ScreenMode_entries[i][1] : i \in 1..Len(ScreenMode_entries)} |->
        LET last_i == CHOOSE i \in 1..Len(ScreenMode_entries) :
                        /\ ScreenMode_entries[i][1] = k
                        /\ \A j \in 1..Len(ScreenMode_entries) :
                              ScreenMode_entries[j][1] = k => j <= i
        IN  ScreenMode_entries[last_i][2]]

\* ScreenMode.parse(value): None or <<code>>
ScreenMode_parse(raw) ==
    LET value == Str(lower(raw)) IN
    IF value \in DOMAIN ScreenMode_modes
    THEN Some(ScreenMode_modes[value])
    ELSE None

\* ---------------------------------------------------------------- elements

\* An attribute as the tokenizer delivers it: (name, value or None).
Attr(n, v) == [name |-> n, value |-> v]

\* Element.__init__
Element_init == [stack |-> <<>>, state |-> None]

\* The class attribute `default` of each element class.
Element_default(cls) ==
    CASE cls = "AntemlElement" -> ""
      [] cls = "BrElement"     -> "\n"
      [] cls = "FwElement"     -> ESC \o "[22m"
      [] cls = "BgElement"     -> ESC \o "[49m"
      [] cls = "FgElement"     -> ESC \o "[39m"
      [] cls = "IElement"      -> ESC \o "[23m"
      [] cls = "UElement"      -> ESC \o "[24m"
      [] cls = "SElement"      -> ESC \o "[29m"
      [] cls = "BlinkElement"  -> ESC \o "[25m"
      [] cls = "InvertElement" -> ESC \o "[27m"
      [] cls = "HideElement"   -> ESC \o "[28m"
      [] cls = "ScreenElement" -> ESC \o "7h"

\* The class attribute `tag` of each element class.
Element_tag(cls) ==
    CASE cls = "AntemlElement" -> "anteml"
      [] cls = "BrElement"     -> "br"
      [] cls = "FwElement"     -> "fw"
      [] cls = "BgElement"     -> "bg"
      [] cls = "FgElement"     -> "fg"
      [] cls = "IElement"      -> "i"
      [] cls = "UElement"      -> "u"
      [] cls = "SElement"      -> "s"
      [] cls = "BlinkElement"  -> "blink"
      [] cls = "InvertElement" -> "invert"
      [] cls = "HideElement"   -> "hide"
      [] cls = "ScreenElement" -> "screen"
      [] cls = "BElementAlias" -> "b"
      [] cls = "LElementAlias" -> "l"

\* A push_state that saves the new state in place of the current one.
push_state_saves_new(cls, inst, state) ==
    [inst |-> [stack |-> Append(inst.stack, state), state |-> Some(state)],
     ret  |-> state]

\* A push_state that, with no current state, saves the new state rather than
\* `default`.
push_state_no_default(cls, inst, state) ==
    [inst |-> [stack |-> Append(inst.stack,
                                IF inst.state # None THEN inst.state[1]
                                ELSE state),
               state |-> Some(state)],
     ret  |-> state]

\* Element.push_state(state)
push_state(cls, inst, state) ==
    [inst |-> [stack |-> Append(inst.stack,
                                IF inst.state # None THEN inst.state[1]
                                ELSE Element_default(cls)),
               state |-> Some(state)],
     ret  |-> state]

\* A pop_state without the fallback to `default`: on an empty stack it
\* returns the empty fragment.
pop_state_no_floor(cls, inst) ==
    IF inst.stack # <<>>
    THEN [inst |-> [stack |-> SubSeq(inst.stack, 1, Len(inst.stack) - 1),
                    state |-> Some(inst.stack[Len(inst.stack)])],
          ret  |-> inst.stack[Len(inst.stack)]]
    ELSE [inst |-> [stack |-> inst.stack, state |-> Some("")], ret |-> ""]

\* A pop_state that reads the top of the stack and leaves it there.
pop_state_keeps_top(cls, inst) ==
    IF inst.stack # <<>>
    THEN [inst |-> [stack |-> inst.stack,
                    state |-> Some(inst.stack[Len(inst.stack)])],
          ret  |-> inst.stack[Len(inst.stack)]]
    ELSE [inst |-> [stack |-> inst.stack, state |-> Some(Element_default(cls))],
          ret  |-> Element_default(cls)]

\* Element.pop_state()
pop_state(cls, inst) ==
    LET state == IF inst.stack # <<>> THEN inst.stack[Len(inst.stack)]
                 ELSE Element_default(cls)
        stack == IF inst.stack # <<>> THEN SubSeq(inst.stack, 1, Len(inst.stack) - 1)
                 ELSE inst.stack
    IN  [inst |-> [stack |-> stack, state |-> Some(state)], ret |-> state]

\* The outcome of a start() or end() call: the handler afterwards, the colour
\* cache afterwards, the fragment returned, and whether AntemlAttributeError
\* was raised instead of returning.
Returned(inst, cache, ret) ==
    [inst |-> inst, cache |-> cache, ret |-> ret, raised |-> FALSE]

Raised(inst, cache) ==
    [inst |-> inst, cache |-> cache, ret |-> "", raised |-> TRUE]

\* `return self.push_state(code)` and its like: p is the result of push_state.
Pushed(p, cache) == Returned(p.inst, cache, p.ret)

\* AntemlElement.start
AntemlElement_start(inst, cache, attrs) == Returned(inst, cache, "")

\* AntemlElement.end
AntemlElement_end(inst) == [inst |-> inst, ret |-> ""]

\* A BrElement.start that does not look at its attributes.
BrElement_start_any(inst, cache, attrs) ==
    Returned(inst, cache, Element_default("BrElement"))

\* BrElement.start
BrElement_start(inst, cache, attrs) ==
    IF Len(attrs) > 0 THEN Raised(inst, cache)
    ELSE Returned(inst, cache, Element_default("BrElement"))

\* BrElement.end
BrElement_end(inst) == [inst |-> inst, ret |-> ""]

\* FwElement.start
FwElement_start(inst, cache, attrs) ==
    IF Len(attrs) # 1 THEN Raised(inst, cache)
    ELSE LET fw == FontWeight_parse(attrs[1].name) IN
         IF fw # None /\ fw[1] # ""
         THEN LET code == Element_default("FwElement") \o ESC \o "[" \o fw[1] \o "m"
                  p    == push_state("FwElement", inst, code)
              IN  Returned(p.inst, cache, p.ret)
         ELSE Raised(inst, cache)

\* textwrap.wrap(v, 2) of six hex digits: three two-character pieces.
wrap2(v) == <<SubSeq(v, 1, 2), SubSeq(v, 3, 4), SubSeq(v, 5, 6)>>

\* int(c, 16) of a two-character piece.
int16(c) == 16 * HexVal(c[1]) + HexVal(c[2])

\* BgElement.start, case "hex": the pieces are converted with int(c, 16).
BgElement_hex(rgb) ==
    ESC \o "[48;2;" \o IntToStr(int16(rgb[1])) \o ";"
        \o IntToStr(int16(rgb[2])) \o ";" \o IntToStr(int16(rgb[3])) \o "m"

\* BgElement.start, the match on color.type: the code for a colour
\* <<type, fg_value, bg_value>>.
BgElement_code(color) ==
    IF color[1] = "name" THEN ESC \o "[" \o Str(color[3]) \o "m"
    ELSE IF color[1] = "decimal" THEN ESC \o "[48;5;" \o Str(color[3]) \o "m"
    ELSE IF color[1] = "hex" THEN BgElement_hex(wrap2(color[3]))
    ELSE ""

\* BgElement.start from the parsed colour on: c is the result of Color.parse.
BgElement_parsed(inst, c) ==
    IF c.ret # None
    THEN Pushed(push_state("BgElement", inst, BgElement_code(c.ret[1])), c.cache)
    ELSE Raised(inst, c.cache)

\* BgElement.start
BgElement_start(inst, cache, attrs) ==
    IF Len(attrs) # 1 THEN Raised(inst, cache)
    ELSE BgElement_parsed(inst, Color_parse(cache, attrs[1].name))

\* BgElement.end
BgElement_end(inst) == pop_state("BgElement", inst)

\* FgElement.start, case "hex": the pieces are formatted as they are written.
FgElement_hex(rgb) ==
    ESC \o "[38;2;" \o Str(rgb[1]) \o ";" \o Str(rgb[2]) \o ";"
        \o Str(rgb[3]) \o "m"

\* FgElement.start, the match on color.type: the code for a colour
\* <<type, fg_value, bg_value>>.
FgElement_code(color) ==
    IF color[1] = "name" THEN ESC \o "[" \o Str(color[2]) \o "m"
    ELSE IF color[1] = "decimal" THEN ESC \o "[38;5;" \o Str(color[2]) \o "m"
    ELSE IF color[1] = "hex" THEN FgElement_hex(wrap2(color[2]))
    ELSE ""

\* FgElement.start from the parsed colour on: c is the result of Color.parse.
FgElement_parsed(inst, c) ==
    IF c.ret # None
    THEN Pushed(push_state("FgElement", inst, FgElement_code(c.ret[1])), c.cache)
    ELSE Raised(inst, c.cache)

\* An FgElement.start that reads the colour from the value part of a
\* name=value attribute.
FgElement_start_reads_value(inst, cache, attrs) ==
    IF Len(attrs) # 1 THEN Raised(inst, cache)
    ELSE FgElement_parsed(inst, Color_parse(cache,
             IF attrs[1].value # None THEN attrs[1].value[1]
             ELSE attrs[1].name))

\* FgElement.start
FgElement_start(inst, cache, attrs) ==
    IF Len(attrs) # 1 THEN Raised(inst, cache)
    ELSE FgElement_parsed(inst, Color_parse(cache, attrs[1].name))

\* FgElement.end
FgElement_end(inst) == pop_state("FgElement", inst)

\* FwElement.end
FwElement_end(inst) == pop_state("FwElement", inst)

\* IElement.start
IElement_start(inst, cache, attrs) ==
    IF Len(attrs) > 0 THEN Raised(inst, cache)
    ELSE LET p == push_state("IElement", inst, ESC \o "[3m")
         IN  Returned(p.inst, cache, p.ret)

\* IElement.end
IElement_end(inst) == pop_state("IElement", inst)

\* UElement.start
UElement_start(inst, cache, attrs) ==
    IF Len(attrs) > 0 THEN Raised(inst, cache)
    ELSE LET p == push_state("UElement", inst, ESC \o "[4m")
         IN  Returned(p.inst, cache, p.ret)

\* UElement.end
UElement_end(inst) == pop_state("UElement", inst)

\* SElement.start
SElement_start(inst, cache, attrs) ==
    IF Len(attrs) > 0 THEN Raised(inst, cache)
    ELSE LET p == push_state("SElement", inst, ESC \o "[9m")
         IN  Returned(p.inst, cache, p.ret)

\* SElement.end
SElement_end(inst) == pop_state("SElement", inst)

\* BlinkElement.start
BlinkElement_start(inst, cache, attrs) ==
    IF Len(attrs) > 0 THEN Raised(inst, cache)
    ELSE LET p == push_state("BlinkElement", inst, ESC \o "[5m")
         IN  Returned(p.inst, cache, p.ret)

\* BlinkElement.end
BlinkElement_end(inst) == pop_state("BlinkElement", inst)

\* InvertElement.start
InvertElement_start(inst, cache, attrs) ==
    IF Len(attrs) > 0 THEN Raised(inst, cache)
    ELSE LET p == push_state("InvertElement", inst, ESC \o "[7m")
         IN  Returned(p.inst, cache, p.ret)

\* InvertElement.end
InvertElement_end(inst) == pop_state("InvertElement", inst)

\* HideElement.start
HideElement_start(inst, cache, attrs) ==
    IF Len(attrs) > 0 THEN Raised(inst, cache)
    ELSE LET p == push_state("HideElement", inst, ESC \o "[8m")
         IN  Returned(p.inst, cache, p.ret)

\* HideElement.end
HideElement_end(inst) == pop_state("HideElement", inst)

\* ScreenElement._determine_screen_mode: raised, or the mode's code.
determine_screen_mode(value) ==
    IF value = None THEN [raised |-> TRUE, v |-> ""]
    ELSE LET v == ScreenMode_parse(value[1]) IN
         IF v = None THEN [raised |-> TRUE, v |-> ""]
         ELSE [raised |-> FALSE, v |-> v[1]]

\* ScreenElement._determine_line_wrap: raised, or the boolean.
determine_line_wrap(value) ==
    IF value = None THEN [raised |-> TRUE, v |-> FALSE]
    ELSE LET v == Boolean_parse(value[1]) IN
         IF v = None THEN [raised |-> TRUE, v |-> FALSE]
         ELSE [raised |-> FALSE, v |-> v[1]]

\* A pass of the loop that takes a false line_wrap for one not yet given.
screen_attr_truthy(attr, screen_mode, line_wrap) ==
    LET attr_name == Str(lower(attr.name))
        failed == [raised |-> TRUE, screen_mode |-> None, line_wrap |-> None]
    IN
    IF attr_name = "mode"
    THEN IF screen_mode # None THEN failed
         ELSE LET m == determine_screen_mode(attr.value) IN
              IF m.raised THEN failed
              ELSE [raised |-> FALSE, screen_mode |-> Some(m.v),
                    line_wrap |-> line_wrap]
    ELSE IF attr_name = "wrap"
    THEN IF line_wrap = Some(TRUE) THEN failed
         ELSE LET w == determine_line_wrap(attr.value) IN
              IF w.raised THEN failed
              ELSE [raised |-> FALSE, screen_mode |-> screen_mode,
                    line_wrap |-> Some(w.v)]
    ELSE [raised |-> FALSE, screen_mode |-> screen_mode, line_wrap |-> line_wrap]

\* A pass of the loop that refuses an attribute of another name.
screen_attr_strict(attr, screen_mode, line_wrap) ==
    LET attr_name == Str(lower(attr.name))
        failed == [raised |-> TRUE, screen_mode |-> None, line_wrap |-> None]
    IN
    IF attr_name = "mode"
    THEN IF screen_mode # None THEN failed
         ELSE LET m == determine_screen_mode(attr.value) IN
              IF m.raised THEN failed
              ELSE [raised |-> FALSE, screen_mode |-> Some(m.v),
                    line_wrap |-> line_wrap]
    ELSE IF attr_name = "wrap"
    THEN IF line_wrap # None THEN failed
         ELSE LET w == determine_line_wrap(attr.value) IN
              IF w.raised THEN failed
              ELSE [raised |-> FALSE, screen_mode |-> screen_mode,
                    line_wrap |-> Some(w.v)]
    ELSE failed

\* One pass of the loop of ScreenElement.start, over one attribute:
\* screen_mode and line_wrap (None, or <<value>>) after it, or raised.
screen_attr(attr, screen_mode, line_wrap) ==
    LET attr_name == Str(lower(attr.name))
        failed == [raised |-> TRUE, screen_mode |-> None, line_wrap |-> None]
    IN
    IF attr_name = "mode"
    THEN IF screen_mode # None THEN failed
         ELSE LET m == determine_screen_mode(attr.value) IN
              IF m.raised THEN failed
              ELSE [raised |-> FALSE, screen_mode |-> Some(m.v),
                    line_wrap |-> line_wrap]
    ELSE IF attr_name = "wrap"
    THEN IF line_wrap # None THEN failed
         ELSE LET w == determine_line_wrap(attr.value) IN
              IF w.raised THEN failed
              ELSE [raised |-> FALSE, screen_mode |-> screen_mode,
                    line_wrap |-> Some(w.v)]
    ELSE [raised |-> FALSE, screen_mode |-> screen_mode, line_wrap |-> line_wrap]

RECURSIVE screen_attrs(_, _, _, _)
\* The loop of ScreenElement.start after the pass over attrs[i], whose result
\* is a.
screen_attrs_next(attrs, i, a) ==
    IF a.raised THEN a
    ELSE screen_attrs(attrs, i + 1, a.screen_mode, a.line_wrap)

\* The loop of ScreenElement.start over attrs[i..]: screen_mode and line_wrap
\* when it ends, or raised.
screen_attrs(attrs, i, screen_mode, line_wrap) ==
    IF i > Len(attrs)
    THEN [raised |-> FALSE, screen_mode |-> screen_mode, line_wrap |-> line_wrap]
    ELSE screen_attrs_next(attrs, i, screen_attr(attrs[i], screen_mode, line_wrap))

\* A ScreenElement.start whose end code undoes the wrap by its opposite.
ScreenElement_codes_mirror(inst, cache, a) ==
    IF a.raised THEN Raised(inst, cache)
    ELSE
      LET has_mode == a.screen_mode # None
          wrap_on  == a.line_wrap = Some(TRUE)
          wrap_off == a.line_wrap = Some(FALSE)
          start_code ==
              (IF has_mode THEN ESC \o "[=" \o a.screen_mode[1] \o "h" ELSE "")
              \o (IF wrap_on THEN ESC \o "[=7h" ELSE "")
              \o (IF wrap_off THEN ESC \o "[=7l" ELSE "")
          end_code ==
              (IF wrap_on THEN ESC \o "[=7l" ELSE "")
              \o (IF wrap_off THEN ESC \o "[=7h" ELSE "")
              \o (IF has_mode THEN ESC \o "[=" \o a.screen_mode[1] \o "l" ELSE "")
      IN  Returned(push_state("ScreenElement", inst, end_code).inst, cache,
                   start_code)

\* A ScreenElement.start that pushes before it reads its attributes.
ScreenElement_start_pushes_first(inst, cache, attrs) ==
    LET p == push_state("ScreenElement", inst, "") IN
    IF Len(attrs) > 2 THEN Raised(p.inst, cache)
    ELSE LET a == screen_attrs(attrs, 1, None, None) IN
         IF a.raised THEN Raised(p.inst, cache)
         ELSE Returned(p.inst, cache, "")

\* ScreenElement.start after its loop, whose result is a: the start and end
\* codes are built, the end code is pushed and the start code returned.
ScreenElement_codes(inst, cache, a) ==
    IF a.raised THEN Raised(inst, cache)
    ELSE
      LET has_mode == a.screen_mode # None
          wrap_on  == a.line_wrap = Some(TRUE)
          wrap_off == a.line_wrap = Some(FALSE)
          start_code ==
              (IF has_mode THEN ESC \o "[=" \o a.screen_mode[1] \o "h" ELSE "")
              \o (IF wrap_on THEN ESC \o "[=7h" ELSE "")
              \o (IF wrap_off THEN ESC \o "[=7l" ELSE "")
          end_code ==
              (IF wrap_on THEN ESC \o "[=7h" ELSE "")
              \o (IF wrap_off THEN ESC \o "[=7h" ELSE "")
              \o (IF has_mode THEN ESC \o "[=" \o a.screen_mode[1] \o "l" ELSE "")
      IN  Returned(push_state("ScreenElement", inst, end_code).inst, cache,
                   start_code)

\* ScreenElement.start
ScreenElement_start(inst, cache, attrs) ==
    IF Len(attrs) > 2 THEN Raised(inst, cache)
    ELSE ScreenElement_codes(inst, cache, screen_attrs(attrs, 1, None, None))

\* ScreenElement.end
ScreenElement_end(inst) == pop_state("ScreenElement", inst)

\* ------------------------------------------------------------------ aliases

\* A `resolves_to` where the alias l stands for the alias b.
ElementAlias_resolves_to_chained(cls) ==
    CASE cls = "BElementAlias" -> "FwElement"
      [] cls = "LElementAlias" -> "BElementAlias"

\* The class attribute `resolves_to` of each alias class.
ElementAlias_resolves_to(cls) ==
    CASE cls = "BElementAlias" -> "FwElement"
      [] cls = "LElementAlias" -> "FwElement"

\* A BElementAlias.start that takes attributes and drops them.
BElementAlias_start_lenient(attrs) ==
    [raised |-> FALSE, type |-> ElementAlias_resolves_to("BElementAlias"),
     attrs |-> <<Attr(<<"b","o","l","d">>, None)>>]

\* BElementAlias.start: raised, or (element type, attrs).
BElementAlias_start(attrs) ==
    IF Len(attrs) > 0
    THEN [raised |-> TRUE, type |-> "", attrs |-> <<>>]
    ELSE [raised |-> FALSE, type |-> ElementAlias_resolves_to("BElementAlias"),
          attrs |-> <<Attr(<<"b","o","l","d">>, None)>>]

\* BElementAlias.end
BElementAlias_end == ElementAlias_resolves_to("BElementAlias")

\* LElementAlias.start: raised, or (element type, attrs).
LElementAlias_start(attrs) ==
    IF Len(attrs) > 0
    THEN [raised |-> TRUE, type |-> "", attrs |-> <<>>]
    ELSE [raised |-> FALSE, type |-> ElementAlias_resolves_to("LElementAlias"),
          attrs |-> <<Attr(<<"l","i","g","h","t">>, None)>>]

\* LElementAlias.end
LElementAlias_end == ElementAlias_resolves_to("LElementAlias")

\* The registry `elements`: tag name -> class.
elements ==
    [anteml |-> "AntemlElement", br |-> "BrElement", bg |-> "BgElement",
     fg |-> "FgElement", fw |-> "FwElement", i |-> "IElement",
     u |-> "UElement", s |-> "SElement", blink |-> "BlinkElement",
     hide |-> "HideElement", invert |-> "InvertElement",
     screen |-> "ScreenElement",
     b |-> "BElementAlias", l |-> "LElementAlias"]

\* isinstance(handler, ElementAlias) / isinstance(handler, Element)
IsAliasClass(cls) == cls \in {"BElementAlias", "LElementAlias"}

IsElementClass(cls) == ~IsAliasClass(cls)

\* handler.start(attrs) of an Element, by its class.
Element_start(cls, inst, cache, attrs) ==
    CASE cls = "AntemlElement" -> AntemlElement_start(inst, cache, attrs)
      [] cls = "BrElement"     -> BrElement_start(inst, cache, attrs)
      [] cls = "FwElement"     -> FwElement_start(inst, cache, attrs)
      [] cls = "BgElement"     -> BgElement_start(inst, cache, attrs)
      [] cls = "FgElement"     -> FgElement_start(inst, cache, attrs)
      [] cls = "IElement"      -> IElement_start(inst, cache, attrs)
      [] cls = "UElement"      -> UElement_start(inst, cache, attrs)
      [] cls = "SElement"      -> SElement_start(inst, cache, attrs)
      [] cls = "BlinkElement"  -> BlinkElement_start(inst, cache, attrs)
      [] cls = "InvertElement" -> InvertElement_start(inst, cache, attrs)
      [] cls = "HideElement"   -> HideElement_start(inst, cache, attrs)
      [] cls = "ScreenElement" -> ScreenElement_start(inst, cache, attrs)

\* handler.end() of an Element, by its class.
Element_end(cls, inst) ==
    CASE cls = "AntemlElement" -> AntemlElement_end(inst)
      [] cls = "BrElement"     -> BrElement_end(inst)
      [] cls = "FwElement"     -> FwElement_end(inst)
      [] cls = "BgElement"     -> BgElement_end(inst)
      [] cls = "FgElement"     -> FgElement_end(inst)
      [] cls = "IElement"      -> IElement_end(inst)
      [] cls = "UElement"      -> UElement_end(inst)
      [] cls = "SElement"      -> SElement_end(inst)
      [] cls = "BlinkElement"  -> BlinkElement_end(inst)
      [] cls = "InvertElement" -> InvertElement_end(inst)
      [] cls = "HideElement"   -> HideElement_end(inst)
      [] cls = "ScreenElement" -> ScreenElement_end(inst)

\* handler.start(attrs) of an ElementAlias, by its class.
ElementAlias_start(cls, attrs) ==
    CASE cls = "BElementAlias" -> BElementAlias_start(attrs)
      [] cls = "LElementAlias" -> LElementAlias_start(attrs)

\* handler.end() of an ElementAlias, by its class.
ElementAlias_end(cls) ==
    CASE cls = "BElementAlias" -> BElementAlias_end
      [] cls = "LElementAlias" -> LElementAlias_end

\* ------------------------------------------------------------------- parser

\* The tags of the registry whose handler is an Element (it has a stack).
ElementTags == {t \in DOMAIN elements : IsElementClass(elements[t])}

\* AntemlParser.__init__: one handler instance per registered tag.
element_handlers_init == [t \in ElementTags |-> Element_init]

\* The outcome of one handle_* call: the handlers and the colour cache
\* afterwards, the receiver's calls in order, and whether the call raised.
Outcome(handlers, cache, sink, raised) ==
    [handlers |-> handlers, cache |-> cache, sink |-> sink, raised |-> raised]

\* An output that does not call the receiver with an empty fragment.
output_skips_empty(data) == IF data = "" THEN <<>> ELSE <<data>>

\* AntemlParser.output
output(data) == <<data>>

\* AntemlParser.resolve_starttag_alias: raised, or (tag, attrs).
resolve_starttag_alias(tag, attrs) ==
    IF tag \in DOMAIN elements /\ IsAliasClass(elements[tag])
    THEN LET a == ElementAlias_start(elements[tag], attrs) IN
         IF a.raised THEN [raised |-> TRUE, tag |-> tag, attrs |-> attrs]
         ELSE [raised |-> FALSE, tag |-> Element_tag(a.type), attrs |-> a.attrs]
    ELSE [raised |-> FALSE, tag |-> tag, attrs |-> attrs]

\* A resolve_endtag_alias that leaves an alias name as it is.
resolve_endtag_alias_keeps(tag) == tag

\* AntemlParser.resolve_endtag_alias
resolve_endtag_alias(tag) ==
    IF tag \in DOMAIN elements /\ IsAliasClass(elements[tag])
    THEN Element_tag(ElementAlias_end(elements[tag]))
    ELSE tag

\* A handle_starttag that resets the other handlers when a tag is opened.
handle_starttag_resets(handlers, tag, s) ==
    IF s.raised THEN Outcome(handlers, s.cache, <<>>, TRUE)
    ELSE Outcome([t \in DOMAIN handlers |->
                     IF t = tag THEN s.inst ELSE Element_init],
                 s.cache, output(s.ret), FALSE)

\* handle_starttag after handler.start(attrs), whose outcome is v: its
\* fragment goes to the receiver; when it raised, the handler stays as start
\* left it and nothing goes to the receiver.
handle_starttag_started(handlers, tag, v) ==
    IF v.raised
    THEN Outcome([handlers EXCEPT ![tag] = v.inst], v.cache, <<>>, TRUE)
    ELSE Outcome([handlers EXCEPT ![tag] = v.inst], v.cache, output(v.ret), FALSE)

\* handle_starttag after resolve_starttag_alias, whose result is r.
handle_starttag_resolved(handlers, cache, options, r, text) ==
    IF r.raised THEN Outcome(handlers, cache, <<>>, TRUE)
    ELSE IF r.tag \notin DOMAIN elements
    THEN Outcome(handlers, cache,
                 IF ~options.strip_unknown THEN output(text) ELSE <<>>, FALSE)
    ELSE IF ~IsElementClass(elements[r.tag])
    THEN Outcome(handlers, cache, <<>>, FALSE)
    ELSE handle_starttag_started(handlers, r.tag,
             Element_start(elements[r.tag], handlers[r.tag], cache, r.attrs))

\* The table `entities`: the value of each name.  A control character other
\* than ESC is written as its escape in the source.
entities ==
    [ESC |-> ESC, CSI |-> "\\x9b", DCS |-> "\\x90", OSC |-> "\\x9d",
     ST |-> "\\x9c", SOS |-> "\\x98", PM |-> "\\x9e", APC |-> "\\x9f",
     BEL |-> "\\x07", BS |-> "\\x08", HT |-> "\\x09", LF |-> "\\x0a",
     VT |-> "\\x0b", FF |-> "\\x0c", CR |-> "\\x0d", DEL |-> "\\x7f",
     amp |-> "&", lt |-> "<", gt |-> ">", nbsp |-> " "]

\* A handle_entityref that refuses a name it cannot resolve.
handle_entityref_strict(handlers, cache, options, name) ==
    IF Str(name) \in DOMAIN entities
    THEN Outcome(handlers, cache, output(entities[Str(name)]), FALSE)
    ELSE Outcome(handlers, cache, <<>>, TRUE)

\* AntemlParser.handle_entityref(name)
handle_entityref(handlers, cache, options, name) ==
    Outcome(handlers, cache,
            output(IF Str(name) \in DOMAIN entities THEN entities[Str(name)]
                   ELSE IF ~options.strip_unknown THEN "&" \o Str(name) \o ";"
                   ELSE ""),
            FALSE)

RECURSIVE int_of(_, _)
\* int(s) and int(s, 16) on the digits of a character reference: the number,
\* or -1 where int raises ValueError.
int_of(s, base) ==
    LET d == s[Len(s)]
        ok == IF base = 16 THEN IsHexDigit(d) ELSE IsDigit(d)
        rest == IF Len(s) = 1 THEN 0 ELSE int_of(SubSeq(s, 1, Len(s) - 1), base)
    IN  IF s = <<>> THEN -1
        ELSE IF ~ok \/ rest < 0 THEN -1
        ELSE base * rest + HexVal(d)

\* AntemlParser.handle_charref(name); chr(n) is written U+n, and raises above
\* the last code point.
handle_charref(handlers, cache, options, name) ==
    LET n == IF name # <<>> /\ name[1] = "x" THEN int_of(Tail(name), 16)
             ELSE int_of(name, 10)
    IN  IF n < 0 \/ n > 1114111 THEN Outcome(handlers, cache, <<>>, TRUE)
        ELSE Outcome(handlers, cache, output("U+" \o IntToStr(n)), FALSE)

\* AntemlParser.handle_data(data)
handle_data(handlers, cache, options, data) ==
    Outcome(handlers, cache, output(data), FALSE)

\* AntemlParser.handle_decl(decl); doctype_pattern is DOCTYPE, white space,
\* AnTeML, in any letter case, and then anything on the line.
handle_decl(handlers, cache, options, decl) ==
    LET v == lower(decl)
        n == Len(v)
        spaces == {k \in 1..n : \A i \in 8..(7 + k) : i <= n /\ v[i] = " "}
        doctype_pattern ==
            /\ n >= 14 /\ SubSeq(v, 1, 7) = <<"d","o","c","t","y","p","e">>
            /\ \E k \in spaces :
                  /\ 7 + k + 6 <= n
                  /\ SubSeq(v, 8 + k, 13 + k) = <<"a","n","t","e","m","l">>
            /\ \A i \in 1..n : v[i] # "\n"
    IN  Outcome(handlers, cache,
                IF ~doctype_pattern /\ ~options.strip_unknown
                THEN output("<!" \o Str(decl) \o ">") ELSE <<>>,
                FALSE)

\* A handle_comment that obeys strip_unknown as well.
handle_comment_unknown(handlers, cache, options, data) ==
    Outcome(handlers, cache,
            IF ~options.strip_comments /\ ~options.strip_unknown
            THEN output("<!-- " \o data \o " -->") ELSE <<>>,
            FALSE)

\* AntemlParser.handle_comment(data)
handle_comment(handlers, cache, options, data) ==
    Outcome(handlers, cache,
            IF ~options.strip_comments
            THEN output("<!-- " \o data \o " -->") ELSE <<>>,
            FALSE)

\* AntemlParser.handle_starttag(tag, attrs); text is get_starttag_text().
handle_starttag(handlers, cache, options, tag, attrs, text) ==
    handle_starttag_resolved(handlers, cache, options,
                             resolve_starttag_alias(Str(lower(tag)), attrs), text)

\* handle_endtag after handler.end(), whose result is v: its fragment goes to
\* the receiver.
handle_endtag_ended(handlers, cache, tag, v) ==
    Outcome([handlers EXCEPT ![tag] = v.inst], cache, output(v.ret), FALSE)

\* handle_endtag after resolve_endtag_alias, whose result is tag.
handle_endtag_resolved(handlers, cache, options, orig_tag, tag) ==
    IF tag \in DOMAIN elements
    THEN IF ~IsElementClass(elements[tag])
         THEN Outcome(handlers, cache, <<>>, FALSE)
         ELSE handle_endtag_ended(handlers, cache, tag,
                                  Element_end(elements[tag], handlers[tag]))
    ELSE Outcome(handlers, cache,
                 IF ~options.strip_unknown
                 THEN output("</" \o Str(orig_tag) \o ">") ELSE <<>>,
                 FALSE)

\* AntemlParser.handle_endtag(tag)
handle_endtag(handlers, cache, options, orig_tag) ==
    handle_endtag_resolved(handlers, cache, options, orig_tag,
                           resolve_endtag_alias(Str(lower(orig_tag))))

\* handle_startendtag after handler.start(attrs) and handler.end(), whose
\* results are s and e: both fragments go to the receiver in one call.
handle_startendtag_ended(handlers, tag, s, e) ==
    Outcome([handlers EXCEPT ![tag] = e.inst], s.cache,
            output(s.ret \o e.ret), FALSE)

\* A handle_startendtag that stops after handler.start(attrs).
handle_startendtag_no_end(handlers, cls, tag, s) ==
    IF s.raised THEN Outcome(handlers, s.cache, <<>>, TRUE)
    ELSE Outcome([handlers EXCEPT ![tag] = s.inst], s.cache, output(s.ret), FALSE)

\* handle_startendtag after handler.start(attrs), whose outcome is s:
\* handler.end() follows on the handler as start left it; when start raised,
\* the handler stays as start left it and end is not called.
handle_startendtag_started(handlers, cls, tag, s) ==
    IF s.raised
    THEN Outcome([handlers EXCEPT ![tag] = s.inst], s.cache, <<>>, TRUE)
    ELSE handle_startendtag_ended(handlers, tag, s, Element_end(cls, s.inst))

\* handle_startendtag after resolve_starttag_alias, whose result is r.
handle_startendtag_resolved(handlers, cache, options, r, text) ==
    IF r.raised THEN Outcome(handlers, cache, <<>>, TRUE)
    ELSE IF r.tag \notin DOMAIN elements
    THEN Outcome(handlers, cache,
                 IF ~options.strip_unknown THEN output(text) ELSE <<>>, FALSE)
    ELSE IF ~IsElementClass(elements[r.tag])
    THEN Outcome(handlers, cache, <<>>, FALSE)
    ELSE handle_startendtag_started(handlers, elements[r.tag], r.tag,
             Element_start(elements[r.tag], handlers[r.tag], cache, r.attrs))

\* AntemlParser.handle_startendtag(tag, attrs); text is get_starttag_text().
handle_startendtag(handlers, cache, options, tag, attrs, text) ==
    handle_startendtag_resolved(handlers, cache, options,
                                resolve_starttag_alias(Str(lower(tag)), attrs), text)

\* -------------------------------------------------- the tokenizer's events

\* The source text of an attribute list: name or name=value, each after a
\* space.
RECURSIVE attrs_text(_)
attrs_text(attrs) ==
    IF attrs = <<>> THEN ""
    ELSE " " \o Str(attrs[1].name)
         \o (IF attrs[1].value = None THEN "" ELSE "=" \o Str(attrs[1].value[1]))
         \o attrs_text(Tail(attrs))

\* HTMLParser.parse_starttag on the source text <name attrs> or <name attrs/>:
\* the tag name and the attribute names arrive lower-cased, the attribute
\* values as written, and get_starttag_text() is the source text.
parse_starttag(name, attrs, selfclosing) ==
    [tag   |-> lower(name),
     attrs |-> [i \in 1..Len(attrs) |-> Attr(lower(attrs[i].name), attrs[i].value)],
     text  |-> "<" \o Str(name) \o attrs_text(attrs)
                   \o (IF selfclosing THEN "/>" ELSE ">")]

\* HTMLParser.parse_endtag on the source text </name>: the tag name arrives
\* lower-cased.
parse_endtag(name) ==
    [tag   |-> lower(name),
     attrs |-> <<>>,
     text  |-> "</" \o Str(name) \o ">"]

\* ------------------------------------------------------------------ inputs

\* Tag names as a document writes them: every registered name, three of them
\* also in capitals, and a name that is not registered, in both cases.
WrittenTags ==
    { <<"a","n","t","e","m","l">>, <<"b","r">>, <<"b","g">>, <<"f","g">>,
      <<"F","G">>, <<"f","w">>, <<"F","w">>, <<"i">>, <<"u">>, <<"s">>,
      <<"b","l","i","n","k">>, <<"h","i","d","e">>,
      <<"i","n","v","e","r","t">>, <<"s","c","r","e","e","n">>,
      <<"b">>, <<"B">>, <<"l">>, <<"f","o","o">>, <<"F","O","O">> }

\* The element type a written tag name belongs to: the tag of the element
\* that an alias stands for, the name itself, or "unknown".
Family(name) ==
    LET t == Str(lower(name)) IN
    IF t \notin DOMAIN elements THEN "unknown"
    ELSE IF IsAliasClass(elements[t])
    THEN Element_tag(ElementAlias_resolves_to(elements[t]))
    ELSE t

A_red == Attr(<<"r","e","d">>, None)

A_bold == Attr(<<"b","o","l","d">>, None)

A_light == Attr(<<"l","i","g","h","t">>, None)

A_wrap_no == Attr(<<"w","r","a","p">>, Some(<<"n","o">>))

A_mode == Attr(<<"M","o","d","e">>, Some(<<"8","0","x","2","5","c">>))

\* Attribute lists as a document writes them on a tag of each element type:
\* none and one for every tag; valid and invalid values and two attributes for
\* the tags that take a value; mode and wrap for the screen tag.
AttrListsFor(name) ==
    LET f == Family(name)
        A_hex == Attr(<<"X","0","a","F">>, None)
        A_dec == Attr(<<"D","0","7">>, None)
    IN
    IF f \in {"fg", "bg"}
    THEN {<<>>, <<A_red>>, <<A_hex>>, <<A_dec>>, <<A_bold>>, <<A_red, A_bold>>}
    ELSE IF f = "fw" /\ Str(lower(name)) = "fw"
    THEN {<<>>, <<A_bold>>, <<A_light>>, <<A_red>>, <<A_bold, A_red>>}
    ELSE IF f = "screen"
    THEN {<<>>, <<A_wrap_no>>, <<A_mode>>, <<A_mode, A_wrap_no>>,
          <<A_wrap_no, A_wrap_no>>, <<A_red, A_bold, A_hex>>}
    ELSE {<<>>, <<A_red>>}

\* The start tags and the self-closing tags a document may hold, as the
\* tokenizer delivers them.
TagEvent(name, ev) ==
    [name |-> name, family |-> Family(name), tag |-> ev.tag,
     attrs |-> ev.attrs, text |-> ev.text]

StartEvents ==
    UNION {{TagEvent(name, parse_starttag(name, attrs, FALSE)) :
              attrs \in AttrListsFor(name)} : name \in WrittenTags}

StartEndEvents ==
    UNION {{TagEvent(name, parse_starttag(name, attrs, TRUE)) :
              attrs \in AttrListsFor(name)} : name \in WrittenTags}

EndEvents == {TagEvent(name, parse_endtag(name)) : name \in WrittenTags}

\* ------------------------------------------------------------------- state

VARIABLES
    handlers,   \* element_handlers: tag -> [stack, state] of its Element
    cache,      \* Color.cache
    options,    \* the parser's options
    last,       \* the last event: what was written, delivered and emitted
    opened,     \* per element type, the opens not yet closed (history)
    vocab,      \* the element types the document uses
    ref,        \* a second parser that is given the same document
    probe       \* a value string or an attribute list under test, and what
                \* the grammar made of the string

vars == <<handlers, cache, options, last, opened, vocab, ref, probe>>

\* The record of an event.  `sink` holds the receiver's calls during the
\* event; `family` is the element type of the written name; `matched` is the
\* open that an end tag closes and `enclosing` the open around that one
\* (None, or <<open>>).
Event(op, ev, out, matched, enclosing) ==
    [op |-> op, name |-> ev.name, tag |-> ev.tag, attrs |-> ev.attrs,
     text |-> ev.text, sink |-> out.sink, raised |-> out.raised,
     family |-> ev.family, matched |-> matched, enclosing |-> enclosing]

NoEvent(op) ==
    [op |-> op, name |-> <<>>, tag |-> <<>>, attrs |-> <<>>, text |-> "",
     sink |-> <<>>, raised |-> FALSE, family |-> "unknown",
     matched |-> None, enclosing |-> None]

\* A value string that a grammar is to be applied to (none: the empty one),
\* or an attribute list that a tag is to carry.
Probe(raw) == [raw |-> raw, op |-> "none", ret |-> None]

\* The documents: each uses the tags of one element type (under any of their
\* names) and names that are not registered.
Vocabularies == {{t} : t \in ElementTags}

Init ==
    /\ handlers = element_handlers_init
    /\ cache = Color_clear_cache
    /\ options \in [strip_unknown : BOOLEAN, strip_comments : BOOLEAN]
    /\ last = NoEvent("init")
    /\ opened = [t \in ElementTags |-> <<>>]
    /\ vocab \in Vocabularies
    /\ ref = [handlers |-> element_handlers_init, cache |-> Color_clear_cache,
              sink |-> <<>>, raised |-> FALSE, tag |-> <<>>,
              after_feed |-> FALSE]
    /\ probe = Probe(<<>>)

\* The tags of the document: of the element types it uses, or not registered.
InDocument(ev) == ev.family \in vocab \cup {"unknown"}

\* The opens not yet closed after a start tag was handled with outcome out: a
\* start tag that was dispatched and did not raise adds one, recording the
\* fragment it emitted and its attributes.
opened_after_start(ev, out) ==
    IF ev.family = "unknown" \/ out.raised THEN opened
    ELSE [opened EXCEPT ![ev.family] =
            Append(@, [code  |-> IF out.sink # <<>> THEN out.sink[1] ELSE "",
                       attrs |-> ev.attrs])]

\* The opens not yet closed after an end tag.
opened_after_end(ev) ==
    IF ev.family = "unknown" \/ opened[ev.family] = <<>> THEN opened
    ELSE [opened EXCEPT ![ev.family] = SubSeq(@, 1, Len(@) - 1)]

\* The parser and the history after handle_starttag on ev had outcome out.
StartTag_handled(ev, out) ==
    /\ handlers' = out.handlers
    /\ cache' = out.cache
    /\ opened' = opened_after_start(ev, out)
    /\ last' = Event("start", ev, out, None, None)
    /\ UNCHANGED <<options, vocab, probe>>

\* A start tag <name attrs> arrives.
StartTag ==
    \E ev \in StartEvents :
        /\ InDocument(ev)
        /\ ev.family # "unknown" =>
              /\ Len(opened[ev.family]) < MaxDepth
              /\ Len(handlers[ev.family].stack) < MaxDepth
        /\ StartTag_handled(ev, handle_starttag(handlers, cache, options,
                                                ev.tag, ev.attrs, ev.text))

\* The parser and the history after handle_endtag on ev had outcome out; n
\* opens of the element type of ev were not yet closed.
EndTag_handled(ev, out, n) ==
    /\ handlers' = out.handlers
    /\ cache' = out.cache
    /\ opened' = opened_after_end(ev)
    /\ last' = Event("end", ev, out,
                     IF n >= 1 THEN Some(opened[ev.family][n]) ELSE None,
                     IF n >= 2 THEN Some(opened[ev.family][n - 1]) ELSE None)
    /\ UNCHANGED <<options, vocab, probe>>

\* An end tag </name> arrives.
EndTag ==
    \E ev \in EndEvents :
        /\ InDocument(ev)
        /\ EndTag_handled(ev, handle_endtag(handlers, cache, options, ev.tag),
                          IF ev.family = "unknown" THEN 0
                          ELSE Len(opened[ev.family]))

\* The parser after handle_startendtag on ev had outcome out.
StartEndTag_handled(ev, out) ==
    /\ handlers' = out.handlers
    /\ cache' = out.cache
    /\ last' = Event("startend", ev, out, None, None)
    /\ UNCHANGED <<options, vocab, opened, probe>>

\* A self-closing tag <name attrs/> arrives.
StartEndTag ==
    \E ev \in StartEndEvents :
        /\ InDocument(ev)
        /\ ev.family # "unknown" =>
              Len(handlers[ev.family].stack) < MaxDepth
        /\ StartEndTag_handled(ev, handle_startendtag(handlers, cache, options,
                                                      ev.tag, ev.attrs, ev.text))

\* A feed that creates the element handlers anew.
Feed_recreates ==
    /\ last' = NoEvent("feed")
    /\ handlers' = element_handlers_init
    /\ UNCHANGED <<cache, options, opened, vocab, probe>>

\* The parser after an event that is no tag was handled with outcome out; the
\* event is recorded under its name and its text.
Other_handled(op, name, text, out) ==
    /\ handlers' = out.handlers
    /\ cache' = out.cache
    /\ last' = [NoEvent(op) EXCEPT !.name = name, !.text = text,
                                   !.sink = out.sink, !.raised = out.raised]
    /\ UNCHANGED <<options, opened, vocab, probe>>

\* An entity reference &name; arrives: a name of the table, a name of the
\* table in another letter case, or a name that is not in it.
EntityRef ==
    \E name \in { <<"E","S","C">>, <<"a","m","p">>, <<"l","t">>,
                  <<"n","b","s","p">>, <<"e","s","c">>, <<"f","o","o">> } :
        Other_handled("entityref", name, "&" \o Str(name) \o ";",
                      handle_entityref(handlers, cache, options, name))

\* A comment <!--data--> arrives.
Comment ==
    \E data \in {"", "x", " inside a comment "} :
        Other_handled("comment", <<>>, data,
                      handle_comment(handlers, cache, options, data))

\* Text arrives.
Data ==
    \E data \in {"x", "Plain text"} :
        Other_handled("data", <<>>, data,
                      handle_data(handlers, cache, options, data))

\* A character reference &#name; arrives: decimal, or hexadecimal after x or
\* after X.
CharRef ==
    \E name \in {<<"4","3">>, <<"x","2","B">>, <<"X","2","b">>} :
        Other_handled("charref", name, "&#" \o Str(name) \o ";",
                      handle_charref(handlers, cache, options, name))

\* A declaration <!decl> arrives: the document type, or another one.
Decl ==
    \E decl \in { <<"D","O","C","T","Y","P","E"," ","A","n","T","e","M","L">>,
                  <<"d","o","c","t","y","p","e"," ","h","t","m","l">> } :
        Other_handled("decl", decl, "<!" \o Str(decl) \o ">",
                      handle_decl(handlers, cache, options, decl))

\* AntemlParser.feed: the caller starts the next chunk of the document.  The
\* events of the chunk follow as the steps above.
Feed ==
    /\ last' = NoEvent("feed")
    /\ UNCHANGED <<handlers, cache, options, opened, vocab, probe>>

Next ==
    \/ StartTag /\ UNCHANGED ref
    \/ EndTag /\ UNCHANGED ref
    \/ StartEndTag /\ UNCHANGED ref
    \/ EntityRef /\ UNCHANGED ref
    \/ Comment /\ UNCHANGED ref
    \/ Data /\ UNCHANGED ref
    \/ CharRef /\ UNCHANGED ref
    \/ Decl /\ UNCHANGED ref
    \/ Feed /\ UNCHANGED ref

Spec == Init /\ [][Next]_vars

\* ------------------------------------------------- a second parser, in step

\* One handle_* call, by the kind of event.
Dispatch(op, h, c, o, ev) ==
    CASE op = "start"    -> handle_starttag(h, c, o, ev.tag, ev.attrs, ev.text)
      [] op = "end"      -> handle_endtag(h, c, o, ev.tag)
      [] op = "startend" -> handle_startendtag(h, c, o, ev.tag, ev.attrs, ev.text)

\* The second parser after a handle_* call on ev with outcome out; after_feed
\* records that the first parser was given the event at the start of a new
\* chunk.
RefHandled(ev, out) ==
    ref' = [handlers |-> out.handlers, cache |-> out.cache, sink |-> out.sink,
            raised |-> out.raised, tag |-> ev.tag,
            after_feed |-> (last.op = "feed")]

\* The second parser handles event ev of kind op.
RefHandles(op, ev) ==
    RefHandled(ev, Dispatch(op, ref.handlers, ref.cache, options, ev))

\* The second parser is given the event the first parser was just given, in
\* one feed call: it sees no chunk boundary.
RefSame == RefHandles(last'.op, last')

\* Two parsers of documents without comments: no step reads strip_comments.
InitFeed == Init /\ ~options.strip_comments

\* Two parsers on one document: the first is fed it in chunks, split anywhere
\* between two events, the second in one call.
SpecFeed ==
    /\ InitFeed
    /\ [][\/ StartTag /\ RefSame
          \/ EndTag /\ RefSame
          \/ StartEndTag /\ RefSame
          \/ Feed /\ UNCHANGED ref]_vars

\* An open of b, or of fw with the one attribute bold.
IsBoldOpen(ev) ==
    \/ Str(ev.tag) = "b" /\ ev.attrs = <<>>
    \/ Str(ev.tag) = "fw" /\ ev.attrs = <<A_bold>>

\* An open of l, or of fw with the one attribute light.
IsLightOpen(ev) ==
    \/ Str(ev.tag) = "l" /\ ev.attrs = <<>>
    \/ Str(ev.tag) = "fw" /\ ev.attrs = <<A_light>>

\* The events that event ev of kind op may be replaced by: an open of b by an
\* open of fw bold, an open of l by an open of fw light, a close of b, l or
\* fw by a close of any of them, each also the other way round; or ev itself.
Swaps(op, ev) ==
    LET same == IF op = "start" THEN StartEvents
                ELSE IF op = "end" THEN EndEvents
                ELSE StartEndEvents
    IN  {ev} \cup
        {e \in same :
            \/ op = "end" /\ e.family = "fw" /\ ev.family = "fw"
            \/ op # "end" /\ IsBoldOpen(e) /\ IsBoldOpen(ev)
            \/ op # "end" /\ IsLightOpen(e) /\ IsLightOpen(ev)}

\* The second parser is given the event of the first, or one it may be
\* replaced by.
RefSwapped == \E e \in Swaps(last'.op, last') : RefHandles(last'.op, e)

\* Two parsers on documents that use b, l and fw, which differ only in the
\* names that equivalent tags are written with.
InitAlias == Init /\ vocab = {"fw"} /\ ~options.strip_comments

SpecAlias ==
    /\ InitAlias
    /\ [][\/ StartTag /\ RefSwapped
          \/ EndTag /\ RefSwapped
          \/ StartEndTag /\ RefSwapped]_vars

\* ------------------------------------------- colour values, one at a time

RECURSIVE StringsUpTo(_, _)
\* The strings of at most n characters of cs.
StringsUpTo(cs, n) ==
    IF n = 0 THEN {<<>>}
    ELSE {<<>>} \cup {<<c>> \o t : c \in cs, t \in StringsUpTo(cs, n - 1)}

\* The colour values under test: D followed by digits of every class that
\* Color.decimal_pattern tells apart and by a letter; X followed by hex letters
\* in both cases and by a letter that is no hex digit; three hex digits of
\* which one takes every value, and six of which one byte takes every value,
\* in each position; colour names as documents write them, and a name that is
\* none.
ColorInputs ==
    LET Bytes == {<<HexDigits[h], HexDigits[l]>> : h \in 1..16, l \in 1..16} IN
    {<<d>> \o t : d \in {"D", "d"},
                  t \in StringsUpTo({"0", "1", "2", "5", "6", "a"}, MaxDigits)}
    \cup {<<x>> \o t : x \in {"X", "x"},
                       t \in StringsUpTo({"a", "F", "g"}, MaxHexLen)}
    \cup {<<"x", HexDigits[h], "0", "f">> : h \in 1..16}
    \cup {<<"x", "0", HexDigits[h], "f">> : h \in 1..16}
    \cup {<<"x", "0", "f", HexDigits[h]>> : h \in 1..16}
    \cup {<<"x">> \o b \o <<"0", "a">> \o <<"f", "0">> : b \in Bytes}
    \cup {<<"x", "0", "a">> \o b \o <<"f", "0">> : b \in Bytes}
    \cup {<<"x", "0", "a">> \o <<"f", "0">> \o b : b \in Bytes}
    \cup { <<"r","e","d">>, <<"R","E","D">>, <<"R","e","d">>,
           <<"b","l","a","c","k">>, <<"W","h","i","t","e">>,
           <<"d","e","f","a","u","l","t">>, <<"D","E","F","A","U","L","T">>,
           <<"p","i","n","k">> }

\* A parser whose document uses the tags of one of the element types vocabs,
\* and one of the values probes, which the document uses on those tags and
\* which the caller hands to the parse methods.
InitProbe(vocabs, probes) ==
    /\ handlers = element_handlers_init
    /\ cache = Color_clear_cache
    /\ options = [strip_unknown |-> FALSE, strip_comments |-> FALSE]
    /\ last = NoEvent("init")
    /\ opened = [t \in ElementTags |-> <<>>]
    /\ vocab \in vocabs
    /\ ref = [handlers |-> element_handlers_init, cache |-> Color_clear_cache,
              sink |-> <<>>, raised |-> FALSE, tag |-> <<>>,
              after_feed |-> FALSE]
    /\ probe \in probes

\* The start tag <t attrs>, as the tokenizer delivers it.
ProbeEvent(t, attrs) ==
    LET name == CHOOSE n \in WrittenTags : Str(n) = t IN
    TagEvent(name, parse_starttag(name, attrs, FALSE))

\* The parser is given start tag ev.
ProbeOpen_event(ev) ==
    /\ Len(opened[ev.family]) < MaxDepth
    /\ Len(handlers[ev.family].stack) < MaxDepth
    /\ StartTag_handled(ev, handle_starttag(handlers, cache, options,
                                            ev.tag, ev.attrs, ev.text))
    /\ UNCHANGED ref

\* Color.parse has returned c.
ColorParse_done(c) ==
    /\ cache' = c.cache
    /\ probe' = [probe EXCEPT !.op = "Color.parse", !.ret = c.ret]
    /\ UNCHANGED <<handlers, options, last, opened, vocab, ref>>

\* The caller hands the value to Color.parse.
ColorParse == ColorParse_done(Color_parse(cache, probe.raw))

\* The document opens a tag with the value as its one attribute.
ColorOpen ==
    \E t \in vocab : ProbeOpen_event(ProbeEvent(t, <<Attr(probe.raw, None)>>))

\* Colour values on fg tags or on bg tags.
SpecColor ==
    /\ InitProbe({{"fg"}, {"bg"}}, {Probe(raw) : raw \in ColorInputs})
    /\ [][ColorParse \/ ColorOpen]_vars

\* ------------------------------------------------------- the colour cache

\* The caller hands Color.parse a colour name, a decimal or a hex value, in one
\* letter case or another, or a value that is no colour.
CacheParse ==
    \E raw \in { <<"r","e","d">>, <<"R","E","D">>, <<"R","e","d">>,
                 <<"d","0","7">>, <<"D","0","7">>, <<"x","0","A","f">>,
                 <<"X","0","a","F">>, <<"p","i","n","k">>, <<"P","i","n","k">>,
                 <<"x","g">> } :
        /\ cache' = Color_parse(cache, raw).cache
        /\ probe' = [raw |-> raw, op |-> "Color.parse",
                     ret |-> Color_parse(cache, raw).ret]
        /\ UNCHANGED <<handlers, options, last, opened, vocab, ref>>

\* The caller calls Color.clear_cache().
ClearCache ==
    /\ cache' = Color_clear_cache
    /\ probe' = [Probe(<<>>) EXCEPT !.op = "Color.clear_cache"]
    /\ UNCHANGED <<handlers, options, last, opened, vocab, ref>>

\* Calls of Color.parse and Color.clear_cache, in any order.
SpecCache ==
    /\ InitProbe({{"fg"}}, {Probe(<<>>)})
    /\ [][CacheParse \/ ClearCache]_vars

\* A second parser of the process, made from the same registry, is given a
\* start tag or an end tag of its own document: it has its own handlers
\* (ref.handlers) and shares Color.cache.
OtherTag ==
    \E op \in {"start", "end"} :
      \E ev \in IF op = "start" THEN StartEvents ELSE EndEvents :
        /\ InDocument(ev)
        /\ (op = "start" /\ ev.family # "unknown")
              => Len(ref.handlers[ev.family].stack) < MaxOtherDepth
        /\ \E out \in {Dispatch(op, ref.handlers, cache, options, ev)} :
              /\ ref' = [ref EXCEPT !.handlers = out.handlers]
              /\ cache' = out.cache
        /\ UNCHANGED <<handlers, options, last, opened, vocab, probe>>

\* Two parsers in one process, each given the tags of its own document, and
\* calls of Color.clear_cache.
SpecSessions ==
    /\ InitProbe({{"bg"}}, {Probe(<<>>)})
    /\ [][\/ StartTag /\ UNCHANGED ref
          \/ EndTag /\ UNCHANGED ref
          \/ OtherTag
          \/ ClearCache]_vars

\* A parser on documents that use the tags of two element types, of fw (with
\* its aliases) and of u, in any order and nesting.
SpecPair ==
    /\ InitProbe({{"fw", "u"}}, {Probe(<<>>)})
    /\ [][Next]_vars

\* --------------------------------------------------- words, one at a time

\* Word w in every letter case.
RECURSIVE CaseVariants(_)
CaseVariants(w) ==
    LET upper == IF \E i \in 1..26 : LowerChars[i] = w[1]
                 THEN UpperChars[CHOOSE i \in 1..26 : LowerChars[i] = w[1]]
                 ELSE w[1]
    IN  IF w = <<>> THEN {<<>>}
        ELSE {<<c>> \o t : c \in {w[1], upper}, t \in CaseVariants(Tail(w))}

\* The words under test: in every letter case the words of Boolean, of
\* FontWeight.weights and of ScreenMode (its table and its documentation);
\* words that are close to those and are none of them; short words.
WordInputs ==
    UNION {CaseVariants(w) : w \in
      { <<"1">>, <<"y","e","s">>, <<"o","n">>, <<"t","r","u","e">>,
        <<"0">>, <<"n","o">>, <<"o","f","f">>, <<"f","a","l","s","e">>,
        <<"b","o","l","d">>, <<"n","o","r","m","a","l">>,
        <<"l","i","g","h","t">>, <<"d","e","f","a","u","l","t">>,
        <<"4","0","x","2","4","m">>, <<"4","0","x","2","5","c">>,
        <<"8","0","x","2","5","m">>, <<"8","0","x","2","5","c">>,
        <<"3","2","0","x","2","0","0","c","4">>,
        <<"3","2","0","x","2","0","0","m">>, <<"6","4","0","x","2","0","0","m">>,
        <<"3","2","0","x","2","0","0","c">>, <<"6","4","0","x","2","0","0","c">>,
        <<"6","4","0","x","3","5","0","m">>, <<"6","4","0","x","3","5","0","c">>,
        <<"6","4","0","x","4","8","0","m">>, <<"6","4","0","x","4","8","0","c">> }}
    \cup { <<"y">>, <<"y","e","s","s">>, <<"t","r","u">>, <<"2">>, <<"1","0">>,
           <<"b","o","l">>, <<"b","o","l","d","e","r">>, <<"h","e","a","v","y">>,
           <<"4","0","x","2","5","m">>, <<"8","0","x","2","5">>, <<"3">> }
    \cup StringsUpTo({"o", "n", "N", "f", "0", "1"}, MaxWordLen)

\* A parse method has returned ret (None, or <<value>>).
WordParse_done(op, ret) ==
    /\ probe' = [probe EXCEPT !.op = op, !.ret = ret]
    /\ UNCHANGED <<handlers, cache, options, last, opened, vocab, ref>>

\* The caller hands the word to Boolean.parse, to FontWeight.parse or to
\* ScreenMode.parse.
WordParse ==
    \/ WordParse_done("Boolean.parse", Boolean_parse(probe.raw))
    \/ WordParse_done("FontWeight.parse", FontWeight_parse(probe.raw))
    \/ WordParse_done("ScreenMode.parse", ScreenMode_parse(probe.raw))

\* The document opens <fw word>.
FwOpen ==
    /\ "fw" \in vocab /\ probe.raw # <<>>
    /\ ProbeOpen_event(ProbeEvent("fw", <<Attr(probe.raw, None)>>))

\* The document opens <screen wrap=word>.
WrapOpen ==
    /\ "screen" \in vocab
    /\ ProbeOpen_event(ProbeEvent("screen",
                                  <<Attr(<<"w","r","a","p">>, Some(probe.raw))>>))

\* The document opens <screen mode=word>.
ModeOpen ==
    /\ "screen" \in vocab
    /\ ProbeOpen_event(ProbeEvent("screen",
                                  <<Attr(<<"m","o","d","e">>, Some(probe.raw))>>))

\* Words on fw tags or on screen tags.
SpecWords ==
    /\ InitProbe({{"fw"}, {"screen"}}, {Probe(raw) : raw \in WordInputs})
    /\ [][WordParse \/ FwOpen \/ WrapOpen \/ ModeOpen]_vars

\* ------------------- Color.parse and Color.clear_cache in two threads

\* One thread calls Color.parse and runs it statement by statement; probe.op
\* holds the line it is to execute next (71, 72, 74 for the store of lines
\* 73-84, 85), "Color.parse" after a return and "KeyError" after a read of a
\* missing key.  Another thread runs Color.clear_cache between any two of
\* these statements.

\* The thread calls Color.parse(raw); line 70 lower-cases its local value.
ParseCall ==
    \E raw \in { <<"r","e","d">>, <<"R","E","D">>, <<"D","0","7">>,
                 <<"x","0","A","f">>, <<"p","i","n","k">>, <<"x","g">> } :
        /\ probe.op \in {"none", "Color.parse", "KeyError"}
        /\ probe' = [raw |-> raw, op |-> "71", ret |-> None]
        /\ UNCHANGED <<handlers, cache, options, last, opened, vocab, ref>>

\* Line 71, `if value in cls.cache:`
ParseTest ==
    /\ probe.op = "71"
    /\ probe' = [probe EXCEPT !.op =
                    IF Str(lower(probe.raw)) \in DOMAIN cache THEN "72" ELSE "74"]
    /\ UNCHANGED <<handlers, cache, options, last, opened, vocab, ref>>

\* Lines 73-84, `cls.cache[value] = ...` with the result of the grammar.
ParseStore ==
    /\ probe.op = "74"
    /\ cache' = [k \in DOMAIN cache \cup {Str(lower(probe.raw))} |->
                    IF k = Str(lower(probe.raw))
                    THEN Color_compute(lower(probe.raw)) ELSE cache[k]]
    /\ probe' = [probe EXCEPT !.op = "85"]
    /\ UNCHANGED <<handlers, options, last, opened, vocab, ref>>

\* Line 72 and line 85, `return cls.cache[value]`: the read of a key that is
\* not in the dictionary raises KeyError.
ParseReturn ==
    /\ probe.op \in {"72", "85"}
    /\ probe' = IF Str(lower(probe.raw)) \in DOMAIN cache
                THEN [probe EXCEPT !.op = "Color.parse",
                                   !.ret = cache[Str(lower(probe.raw))]]
                ELSE [probe EXCEPT !.op = "KeyError"]
    /\ UNCHANGED <<handlers, cache, options, last, opened, vocab, ref>>

\* Line 57, `cls.cache = {}`, in the other thread.
ThreadClear ==
    /\ cache' = Color_clear_cache
    /\ UNCHANGED <<handlers, options, last, opened, vocab, ref, probe>>

\* Two threads of one process, one in Color.parse and one in
\* Color.clear_cache, interleaved statement by statement.
SpecThreads ==
    /\ InitProbe({{"fg"}}, {Probe(<<>>)})
    /\ [][ParseCall \/ ParseTest \/ ParseStore \/ ParseReturn \/ ThreadClear]_vars

\* ------------------------------------------ attributes written name=value

\* The document opens <t name>, <t name=value> or <t name="">, name being the
\* word under test.
ValueOpen ==
    \E t \in vocab :
      \E value \in {None, Some(<<>>), Some(<<"r","e","d">>),
                    Some(<<"b","o","l","d">>), Some(<<"x">>)} :
        ProbeOpen_event(ProbeEvent(t, <<Attr(probe.raw, value)>>))

\* Words as the one attribute of fw, fg or bg tags, with and without a value
\* part.
SpecValue ==
    /\ InitProbe({{"fw"}, {"fg"}, {"bg"}},
                 {Probe(raw) : raw \in
                     { <<"r","e","d">>, <<"R","e","d">>, <<"b","o","l","d">>,
                       <<"l","i","g","h","t">>, <<"X","0","a","F">>,
                       <<"D","0","7">>, <<"c","o","l","o","r">>,
                       <<"w","e","i","g","h","t">> }})
    /\ [][ValueOpen]_vars

\* ------------------------------------------------- attributes of screen

\* Attribute lists as a document writes them on a screen tag: every list of
\* up to two of ten attributes (mode and wrap in either letter case, with a
\* valid value, an invalid value and no value, and two other names), and
\* lists of three.
ScreenAttrLists ==
    LET mode == <<"m","o","d","e">>
        wrap == <<"w","r","a","p">>
        alphabet ==
            { A_mode, Attr(mode, Some(<<"6","4","0","x","4","8","0","M">>)),
              Attr(mode, Some(<<"b","a","d">>)), Attr(mode, None),
              A_wrap_no, Attr(<<"W","R","A","P">>, Some(<<"Y","e","s">>)),
              Attr(wrap, Some(<<"m","a","y","b","e">>)), Attr(wrap, None),
              Attr(<<"f","o","o">>, Some(<<"1">>)), A_red }
    IN  {<<>>} \cup {<<a>> : a \in alphabet}
        \cup {<<a, b>> : a \in alphabet, b \in alphabet}
        \cup {<<A_red, A_red, A_red>>, <<A_mode, A_wrap_no, A_red>>}

\* The document opens <screen attrs>, with the attribute list under test.
ScreenOpen ==
    /\ "screen" \in vocab
    /\ ProbeOpen_event(ProbeEvent("screen", probe.raw))

\* The document holds <screen attrs/>, with the attribute list under test.
ScreenStartEnd ==
    \E ev \in {TagEvent(<<"s","c","r","e","e","n">>,
                        parse_starttag(<<"s","c","r","e","e","n">>, probe.raw, TRUE))} :
        /\ "screen" \in vocab
        /\ Len(handlers["screen"].stack) < MaxDepth
        /\ StartEndTag_handled(ev, handle_startendtag(handlers, cache, options,
                                                      ev.tag, ev.attrs, ev.text))
        /\ UNCHANGED ref

\* A parser on documents of screen tags, some of which carry the attribute
\* list under test.
SpecScreen ==
    /\ InitProbe({{"screen"}}, {Probe(attrs) : attrs \in ScreenAttrLists})
    /\ [][\/ StartTag /\ UNCHANGED ref
          \/ EndTag /\ UNCHANGED ref
          \/ ScreenOpen
          \/ ScreenStartEnd]_vars

\* ---------------------------------------------------------------- claims

\* The tags whose open pushes the current code and whose close pops it.
RestoringTags == {"fg", "bg", "fw", "i", "u", "s", "blink", "invert", "hide"}

\* The last event was an end tag of a registered element type.
LastIsClose == last.op = "end" /\ last.family # "unknown"

\* C1: for fg, bg, fw, i, u, s, blink, invert and hide, a close that matches
\* an open emits the code that was in effect immediately before that open: the
\* code of the enclosing open, or `default` when there is none.  So N nested
\* opens followed by N closes replay the earlier codes in reverse order and
\* end at `default`.
C1_CloseRestoresEnclosing ==
    (LastIsClose /\ last.family \in RestoringTags /\ last.matched # None)
        => /\ ~last.raised
           /\ last.sink =
                <<IF last.enclosing # None THEN last.enclosing[1].code
                  ELSE Element_default(elements[last.family])>>

\* C1 witness: an inner close inside an enclosing open of another code emits
\* the enclosing open's code.
C1_Witness ==
    /\ LastIsClose /\ last.family = "fg"
    /\ last.matched # None /\ last.enclosing # None
    /\ last.enclosing[1].code # last.matched[1].code
    /\ last.sink = <<last.enclosing[1].code>>

\* The close fragment a screen open with these attributes computes (end_code),
\* which start leaves as the handler's current state.
ScreenCloseFragment(attrs) ==
    ScreenElement_start(Element_init, Color_clear_cache, attrs).inst.state[1]

\* C2: the close that matches a screen open with a mode or a wrap attribute
\* emits exactly the close fragment that open computed from its own
\* attributes.
C2_ScreenCloseEmitsOwnReset ==
    (/\ LastIsClose /\ last.family = "screen" /\ last.matched # None
     /\ ScreenCloseFragment(last.matched[1].attrs) # "")
        => last.sink = <<ScreenCloseFragment(last.matched[1].attrs)>>

\* C3 as stated: an extra close of any registered tag, line-break and the
\* container included, does not fail and emits that handler's `default`.
C3_ExtraCloseEmitsDefault ==
    (LastIsClose /\ last.matched = None)
        => /\ ~last.raised
           /\ last.sink = <<Element_default(elements[last.family])>>

\* C3: an extra close of any registered tag does not fail; it emits that
\* handler's `default`, except for line-break, whose close emits the empty
\* fragment.
C3_ExtraCloseEmitsDefaultButBr ==
    (LastIsClose /\ last.matched = None)
        => /\ ~last.raised
           /\ last.sink = <<IF last.family = "br" THEN ""
                            ELSE Element_default(elements[last.family])>>

\* C3 witness: a close of hide with no hide open emits the reveal code.
C3_Witness ==
    /\ LastIsClose /\ last.family = "hide" /\ last.matched = None
    /\ handlers["hide"].stack = <<>>
    /\ last.sink = <<ESC \o "[28m">>

\* C4: a document and the same document with b, l and fw exchanged for one
\* another (an open of b for an open of fw bold, of l for fw light, a close of
\* any of the three for a close of any other) give the same fragments and the
\* same fw handler stack and current state.
C4_AliasesInterchangeable ==
    /\ ref.handlers["fw"] = handlers["fw"]
    /\ ref.sink = last.sink
    /\ ref.raised = last.raised

\* C4 witness: an open written fw bold is closed by </fw> in one document and
\* by </l> in the other, inside an enclosing open.
C4_Witness ==
    /\ LastIsClose /\ Str(last.tag) = "fw" /\ Str(ref.tag) = "l"
    /\ last.matched # None /\ last.matched[1].attrs = <<A_bold>>
    /\ last.enclosing # None
    /\ ref.sink = <<last.enclosing[1].code>>

\* C5 as stated: for every registered tag the handler's stack is as deep as
\* the number of successful opens of the tag not yet closed.
C5_DepthIsNestingAllTags ==
    \A t \in ElementTags : Len(handlers[t].stack) = Len(opened[t])

\* C5: for every registered tag but the container and line-break the
\* handler's stack is as deep as the number of successful opens of the tag not
\* yet closed; the stacks of the container and of line-break stay empty.
C5_DepthIsNesting ==
    \A t \in ElementTags :
        Len(handlers[t].stack) =
            IF t \in {"anteml", "br"} THEN 0 ELSE Len(opened[t])

\* C5 witness: a close with nothing open has left the depth at zero, and a
\* second nested screen open has made it two.
C5_Witness ==
    \/ /\ last.op = "start" /\ ~last.raised /\ last.family = "screen"
       /\ Len(handlers["screen"].stack) = 2 /\ Len(opened["screen"]) = 2
    \/ /\ LastIsClose /\ last.family = "bg" /\ last.matched = None
       /\ Len(handlers["bg"].stack) = 0

\* C6: a parser fed the document in chunks, split anywhere between two
\* events, and a parser fed it in one call emit the same fragments, raise alike
\* and hold the same handler stacks and current states after every event; no
\* feed call resets or recreates a handler.
C6_ChunksDoNotMatter ==
    /\ ref.handlers = handlers
    /\ last.op # "feed" => (ref.sink = last.sink /\ ref.raised = last.raised)

\* C6 witness: a tag opened in an earlier chunk is closed as the first event
\* of a later one, inside an enclosing open, and restores the enclosing code.
C6_Witness ==
    /\ LastIsClose /\ ref.after_feed
    /\ last.family \in RestoringTags
    /\ last.matched # None /\ last.enclosing # None
    /\ last.sink = <<last.enclosing[1].code>>
    /\ ref.sink = last.sink

\* The last event was an open (a start or a self-closing tag) delivered under
\* the name of a concrete element.
LastIsOpenOf(tags) ==
    /\ last.op \in {"start", "startend"}
    /\ Str(last.tag) \in tags

\* An attribute list is exactly one attribute that passes the FontWeight
\* grammar / the Color grammar.
OneFontWeight(attrs) ==
    Len(attrs) = 1 /\ FontWeight_parse(attrs[1].name) # None

OneColor(attrs) ==
    Len(attrs) = 1 /\ Color_compute(lower(attrs[1].name)) # None

\* What C7 states of fw, fg, bg and of line-break, i, u, s, blink, invert and
\* hide.
C7_ValidatingElements ==
    /\ LastIsOpenOf({"fw"}) => (last.raised <=> ~OneFontWeight(last.attrs))
    /\ LastIsOpenOf({"fg", "bg"}) => (last.raised <=> ~OneColor(last.attrs))
    /\ LastIsOpenOf({"br", "i", "u", "s", "blink", "invert", "hide"})
          => (last.raised <=> Len(last.attrs) >= 1)

\* C7 as stated: fw, fg and bg raise unless given exactly one attribute that
\* passes their grammar; the container, line-break, i, u, s, blink, invert and
\* hide raise when given one or more attributes.
C7_EveryElementValidates ==
    /\ C7_ValidatingElements
    /\ LastIsOpenOf({"anteml"}) => (last.raised <=> Len(last.attrs) >= 1)

\* C7: fw, fg and bg raise unless given exactly one attribute that passes
\* their grammar; line-break, i, u, s, blink, invert and hide raise when given
\* one or more attributes; the container takes any attributes and never
\* raises.  The error reaches the caller of the dispatch operation.
C7_ElementsValidateButContainer ==
    /\ C7_ValidatingElements
    /\ LastIsOpenOf({"anteml"}) => ~last.raised

\* C7 witness: fg with one attribute that is no colour, and line-break with
\* an attribute, raise.
C7_Witness ==
    /\ last.raised
    /\ \/ LastIsOpenOf({"fg"}) /\ last.attrs = <<A_bold>>
       \/ LastIsOpenOf({"br"}) /\ last.attrs = <<A_red>>

\* C8: a tag whose name is not registered reaches the receiver as its source
\* text, verbatim and once, when strip_unknown is false, and not at all when
\* it is true; no error is raised.
C8_UnknownTagVerbatim ==
    (last.op \in {"start", "end", "startend"} /\ last.family = "unknown")
        => /\ ~last.raised
           /\ last.sink = IF options.strip_unknown THEN <<>> ELSE <<last.text>>

\* The fragment the handler returns for event ev of kind op in this state
\* (of a registered tag, when the event does not raise).
ReturnedFragment(op, ev) ==
    LET r == resolve_starttag_alias(Str(ev.tag), ev.attrs)
        t == ev.family
        s == Element_start(elements[t], handlers[t], cache, r.attrs)
    IN  CASE op = "start"    -> s.ret
          [] op = "end"      -> Element_end(elements[t], handlers[t]).ret
          [] op = "startend" -> s.ret \o Element_end(elements[t], s.inst).ret

\* The events of kind op.
EventsOf(op) ==
    CASE op = "start" -> StartEvents
      [] op = "end" -> EndEvents
      [] op = "startend" -> StartEndEvents

\* C9: every start, end or self-closing event of a registered tag that does
\* not raise calls the receiver exactly once, with the fragment the handler
\* returned, also when that fragment is empty (container open and close,
\* line-break close, screen open without attributes).
C9_OneSinkCallPerEvent ==
    /\ (last.op \in {"start", "end", "startend"} /\ last.family # "unknown"
            /\ ~last.raised)
          => /\ Len(last.sink) = 1
             /\ last.family = "anteml" => last.sink = <<"">>
             /\ (last.family = "br" /\ last.op = "end") => last.sink = <<"">>
             /\ (last.family = "screen" /\ last.op = "start"
                    /\ last.attrs = <<>>) => last.sink = <<"">>
    /\ \A op \in {"start", "end", "startend"} :
         \A ev \in EventsOf(op) :
            (InDocument(ev) /\ ev.family # "unknown"
                /\ Len(handlers[ev.family].stack) < MaxDepth)
              => LET out == Dispatch(op, handlers, cache, options, ev) IN
                 ~out.raised => out.sink = <<ReturnedFragment(op, ev)>>

\* C9 witness: the receiver was called once with the empty fragment, by a
\* container open and by a line-break close.
C9_Witness ==
    /\ last.sink = <<"">> /\ ~last.raised
    /\ \/ last.family = "anteml" /\ last.op = "start"
       \/ last.family = "br" /\ last.op = "end"

\* C10: a self-closing tag of a registered name does what its start tag
\* followed by its end tag does, with one call of the receiver: the call
\* carries the open fragment followed by the close fragment, and the handler's
\* stack is afterwards what it was before; when the start tag raises, so does
\* the self-closing tag, and nothing changes.
C10_SelfClosingIsStartThenEnd ==
    \A ev \in StartEndEvents :
        (InDocument(ev) /\ ev.family # "unknown"
            /\ Len(handlers[ev.family].stack) < MaxDepth)
          => LET se == handle_startendtag(handlers, cache, options,
                                          ev.tag, ev.attrs, ev.text)
                 st == handle_starttag(handlers, cache, options,
                                       ev.tag, ev.attrs, ev.text)
                 en == handle_endtag(st.handlers, st.cache, options, ev.tag)
             IN  IF st.raised
                 THEN se.raised /\ se.sink = <<>> /\ se.handlers = handlers
                 ELSE /\ ~se.raised
                      /\ se.sink = <<st.sink[1] \o en.sink[1]>>
                      /\ se.handlers = en.handlers
                      /\ se.cache = en.cache
                      /\ se.handlers[ev.family].stack = handlers[ev.family].stack

\* C10 witness: a self-closing fg inside an open fg has emitted its colour
\* code followed by the code of the enclosing open, and left the stack as it
\* was.
C10_Witness ==
    /\ last.op = "startend" /\ ~last.raised /\ last.family = "fg"
    /\ Len(opened["fg"]) = 1
    /\ handlers["fg"].stack = <<Element_default("FgElement")>>
    /\ Len(last.attrs) = 1 /\ Str(last.attrs[1].name) = "d07"
    /\ last.sink = <<ESC \o "[38;5;7m" \o opened["fg"][1].code>>

\* A value is X, in either case, followed by three or by six hex digits.
ValidHex(raw) ==
    /\ Len(raw) \in {4, 7}
    /\ raw[1] \in {"X", "x"}
    /\ \A i \in 2..Len(raw) : IsHexDigit(raw[i])

\* The six digits a valid hex value stands for: three digits are doubled.
Expanded(raw) ==
    IF Len(raw) = 4
    THEN <<raw[2], raw[2], raw[3], raw[3], raw[4], raw[4]>>
    ELSE Tail(raw)

\* The value 0..255 of byte k of six hex digits, as a decimal numeral.
ByteOf(t, k) == IntToStr(16 * HexVal(t[2 * k - 1]) + HexVal(t[2 * k]))

\* ESC[<selector>;2;<r>;<g>;<b>m for the bytes of a valid hex value.
RgbCode(selector, raw) ==
    ESC \o "[" \o selector \o ";2;" \o ByteOf(Expanded(raw), 1) \o ";"
        \o ByteOf(Expanded(raw), 2) \o ";" \o ByteOf(Expanded(raw), 3) \o "m"

\* The last event was an open of tag t with the value under test as its one
\* attribute.
OpenedWithProbe(t) ==
    /\ last.op = "start" /\ last.family = t
    /\ last.attrs = <<Attr(lower(probe.raw), None)>>

\* C11: for every valid hex colour value the fg open emits
\* ESC[38;2;<r>;<g>;<b>m and the bg open ESC[48;2;<r>;<g>;<b>m, with r, g and
\* b the values 0..255 of the three bytes of the expanded six-digit triplet.
C11_HexOpensDifferInSelector ==
    ValidHex(probe.raw)
        => /\ OpenedWithProbe("fg")
                => (~last.raised /\ last.sink = <<RgbCode("38", probe.raw)>>)
           /\ OpenedWithProbe("bg")
                => (~last.raised /\ last.sink = <<RgbCode("48", probe.raw)>>)

RECURSIVE NumVal(_)
\* The number a string of decimal digits spells.
NumVal(t) ==
    IF t = <<>> THEN 0
    ELSE 10 * NumVal(SubSeq(t, 1, Len(t) - 1)) + HexMap[t[Len(t)]]

\* A value is D, in either case, followed by one to three decimal digits that
\* spell a number of 0..255.
ValidDecimal(raw) ==
    /\ Len(raw) \in {2, 3, 4}
    /\ raw[1] \in {"D", "d"}
    /\ \A i \in 2..Len(raw) : IsDigit(raw[i])
    /\ NumVal(Tail(raw)) <= 255

\* The value under test was parsed as a colour of type t.
ParsedAs(t) == probe.ret # None /\ probe.ret[1][1] = t

C13_DecimalPayloadIsIndex ==
    ValidDecimal(probe.raw)
        => /\ probe.op = "Color.parse"
                => /\ ParsedAs("decimal")
                   /\ Str(probe.ret[1][2]) = IntToStr(NumVal(Tail(probe.raw)))
                   /\ probe.ret[1][3] = probe.ret[1][2]
           /\ OpenedWithProbe("fg")
                => last.sink = <<ESC \o "[38;5;"
                                    \o IntToStr(NumVal(Tail(probe.raw))) \o "m">>
           /\ OpenedWithProbe("bg")
                => last.sink = <<ESC \o "[48;5;"
                                    \o IntToStr(NumVal(Tail(probe.raw))) \o "m">>

\* C14: Color.parse takes a value for a hex colour exactly when it is X, in
\* either case, followed by exactly three or exactly six hex digits; three
\* digits a, b, c give the payload of the six digits a, a, b, b, c, c, the same
\* for foreground and background, and the payload does not depend on the
\* letter case of the value.
C14_HexGrammar ==
    /\ probe.op = "Color.parse"
          => /\ ParsedAs("hex") <=> ValidHex(probe.raw)
             /\ probe.raw[1] \in {"X", "x"}
                    => (probe.ret # None <=> ValidHex(probe.raw))
             /\ ValidHex(probe.raw)
                    => /\ probe.ret[1][2] = lower(Expanded(probe.raw))
                       /\ probe.ret[1][3] = probe.ret[1][2]
                       /\ probe.ret =
                            Color_compute(<<"x">> \o lower(Expanded(probe.raw)))
    /\ ((OpenedWithProbe("fg") \/ OpenedWithProbe("bg"))
            /\ probe.raw[1] \in {"X", "x"})
          => (last.raised <=> ~ValidHex(probe.raw))

\* C14 witness: XaFa was taken for the hex colour aaffaa.
C14_Witness ==
    /\ probe.op = "Color.parse"
    /\ probe.raw = <<"X", "a", "F", "a">>
    /\ ParsedAs("hex")
    /\ probe.ret[1][2] = <<"a", "a", "f", "f", "a", "a">>

\* The words that spell true and the words that spell false, in lower case.
TruthyWords == {<<"1">>, <<"y","e","s">>, <<"o","n">>, <<"t","r","u","e">>}

FalsyWords == {<<"0">>, <<"n","o">>, <<"o","f","f">>, <<"f","a","l","s","e">>}

\* The last event was an open of the screen tag with the value under test as
\* the value of its one attribute, whose name is n.
ScreenOpenedWithProbe(n) ==
    /\ last.op = "start" /\ last.family = "screen"
    /\ Len(last.attrs) = 1
    /\ Str(last.attrs[1].name) = n
    /\ last.attrs[1].value = Some(probe.raw)

\* C15: compared without regard to case, Boolean.parse gives true for 1, yes,
\* on and true, false for 0, no, off and false, and None for every other
\* string; a screen open with a wrap value that is none of them raises, one
\* with a word for false switches line wrapping off (ESC[=7l) and will switch
\* it on again at its close, one with a word for true switches it on.
C15_BooleanTriState ==
    /\ probe.op = "Boolean.parse"
          => probe.ret = (IF lower(probe.raw) \in TruthyWords THEN Some(TRUE)
                          ELSE IF lower(probe.raw) \in FalsyWords THEN Some(FALSE)
                          ELSE None)
    /\ ScreenOpenedWithProbe("wrap")
          => /\ last.raised <=> lower(probe.raw) \notin TruthyWords \cup FalsyWords
             /\ lower(probe.raw) \in FalsyWords
                   => /\ last.sink = <<ESC \o "[=7l">>
                      /\ handlers["screen"].state = Some(ESC \o "[=7h")
             /\ lower(probe.raw) \in TruthyWords
                   => last.sink = <<ESC \o "[=7h">>

\* <screen wrap=OfF> was opened.
C15_Witness ==
    /\ ScreenOpenedWithProbe("wrap")
    /\ probe.raw = <<"O","f","F">>
    /\ last.sink = <<ESC \o "[=7l">>

\* The mode names as the documentation of ScreenMode spells them, each with
\* the code of an entry of the table under that name.
DocumentedModes ==
    { << <<"4","0","x","2","4","m">>, "0" >>,
      << <<"4","0","x","2","5","c">>, "1" >>,
      << <<"8","0","x","2","5","m">>, "2" >>,
      << <<"8","0","x","2","5","c">>, "3" >>,
      << <<"3","2","0","x","2","0","0","c","4">>, "4" >>,
      << <<"3","2","0","x","2","0","0","m">>, "5" >>,
      << <<"6","4","0","X","2","0","0","m">>, "6" >>,
      << <<"3","2","0","x","2","0","0","c">>, "13" >>,
      << <<"3","2","0","x","2","0","0","c">>, "19" >>,
      << <<"6","4","0","x","2","0","0","c">>, "14" >>,
      << <<"6","4","0","x","3","5","0","m">>, "15" >>,
      << <<"6","4","0","x","3","5","0","c">>, "16" >>,
      << <<"6","4","0","x","4","8","0","m">>, "17" >>,
      << <<"6","4","0","x","4","8","0","c">>, "18" >> }

\* The documented modes that raw names, whatever its letter case.
ModesNamed(raw) == {d \in DocumentedModes : lower(d[1]) = lower(raw)}

\* C16: ScreenMode.parse resolves every documented mode name, in any letter
\* case, to the code of a table entry of that name, and every other string is
\* invalid.
C16_ModeLookup ==
    probe.op = "ScreenMode.parse"
        => IF ModesNamed(probe.raw) # {}
           THEN \E d \in ModesNamed(probe.raw) : probe.ret = Some(d[2])
           ELSE probe.ret = None

\* The code of each font weight literal, in lower case.
WeightLiterals ==
    { << <<"b","o","l","d">>, "1" >>, << <<"n","o","r","m","a","l">>, "22" >>,
      << <<"l","i","g","h","t">>, "2" >> }

\* The literals that raw spells, whatever its letter case.
WeightsNamed(raw) == {w \in WeightLiterals : w[1] = lower(raw)}

\* C17: FontWeight.parse takes exactly bold, normal and light, in any letter
\* case, as 1, 22 and 2, and no other string; an fw open with a value it takes
\* emits and pushes ESC[22m followed by ESC[<code>m, and one with any other
\* value raises.
C17_ThreeWeights ==
    /\ probe.op = "FontWeight.parse"
          => IF WeightsNamed(probe.raw) # {}
             THEN \E w \in WeightsNamed(probe.raw) : probe.ret = Some(w[2])
             ELSE probe.ret = None
    /\ OpenedWithProbe("fw")
          => IF WeightsNamed(probe.raw) # {}
             THEN \E w \in WeightsNamed(probe.raw) :
                    /\ ~last.raised
                    /\ last.sink = <<ESC \o "[22m" \o ESC \o "[" \o w[2] \o "m">>
                    /\ handlers["fw"].state = Some(last.sink[1])
             ELSE last.raised

\* C18: for an entity reference whose name is in the entity table the
\* receiver gets the value of the entry; for any other name it gets the text
\* &name; when strip_unknown is off and is not called when strip_unknown is on.
C18_EntityEvents ==
    last.op = "entityref"
        => last.sink = (IF Str(last.name) \in DOMAIN entities
                        THEN <<entities[Str(last.name)]>>
                        ELSE IF ~options.strip_unknown
                        THEN <<"&" \o Str(last.name) \o ";">>
                        ELSE <<>>)

\* C19: a comment is passed to the receiver once, as <!-- text -->, when
\* strip_comments is off, and the receiver is not called when it is on,
\* whatever strip_unknown is; the comment does not raise and changes no
\* handler, no cached value and no option.
C19_CommentsObeyStripComments ==
    [][last'.op = "comment"
          => /\ last'.sink = (IF options.strip_comments THEN <<>>
                              ELSE <<"<!-- " \o last'.text \o " -->">>)
             /\ ~last'.raised
             /\ handlers' = handlers /\ cache' = cache /\ options' = options
      ]_vars

\* A comment was passed through, with strip_unknown on, inside an open tag.
C19_Witness ==
    /\ last.op = "comment" /\ last.text = " inside a comment "
    /\ options.strip_unknown /\ ~options.strip_comments
    /\ last.sink = <<"<!--  inside a comment  -->">>
    /\ \E t \in vocab : handlers[t].stack # <<>>

\* The events a document can continue with, each with the kind of its call.
Following ==
    {<<"start", ev>> : ev \in {e \in StartEvents : InDocument(e)}}
    \cup {<<"end", ev>> : ev \in {e \in EndEvents : InDocument(e)}}
    \cup {<<"startend", ev>> : ev \in {e \in StartEndEvents : InDocument(e)}}

\* Parsers with handlers h1 and h2 give the receiver the same fragments, and
\* raise alike, on each event a document can continue with.
SameOnFollowing(h1, h2) ==
    \A f \in Following :
        LET o1 == Dispatch(f[1], h1, cache, options, f[2])
            o2 == Dispatch(f[1], h2, cache, options, f[2])
        IN  o1.sink = o2.sink /\ o1.raised = o2.raised

\* C20: an end tag (closing an open or not), a tag of an unknown name, an
\* entity reference (known or not) and a comment never raise.  After an
\* unknown tag, an entity reference or a comment the handlers and the cached
\* values are the ones from before; after an end tag that closes no open the
\* parser answers every following event as it would have without it.
C20_OnlyOpensAreFatal ==
    [][/\ (last'.op \in {"end", "entityref", "comment"}
             \/ (last'.op \in {"start", "startend"} /\ last'.family = "unknown"))
          => ~last'.raised
       /\ (last'.op \in {"entityref", "comment"}
             \/ (last'.op \in {"start", "end", "startend"}
                   /\ last'.family = "unknown"))
          => (handlers' = handlers /\ cache' = cache)
       /\ (last'.op = "end" /\ last'.family # "unknown"
             /\ handlers[last'.family].stack = <<>>)
          => (cache' = cache /\ SameOnFollowing(handlers', handlers))
      ]_vars

\* An end tag that closes no open was handled with strip_unknown on: nothing
\* was raised and the receiver got a fragment.
C20_Witness ==
    /\ last.op = "end" /\ last.family \in vocab /\ last.matched = None
    /\ options.strip_unknown
    /\ ~last.raised /\ last.sink # <<>>
    /\ handlers[last.family].stack = <<>>

\* The values that callers hand to Color.parse.
ParsedValues ==
    { <<"r","e","d">>, <<"R","E","D">>, <<"R","e","d">>, <<"d","0","7">>,
      <<"D","0","7">>, <<"x","0","A","f">>, <<"X","0","a","F">>,
      <<"p","i","n","k">>, <<"P","i","n","k">>, <<"x","g">> }

\* The cache holds, under lower-cased keys, what the grammar gives for them.
CacheHoldsGrammar(c) ==
    \A k \in DOMAIN c :
        \E raw \in ParsedValues :
            k = Str(lower(raw)) /\ c[k] = Color_compute(lower(raw))

\* C21: after any calls of Color.parse and Color.clear_cache, every key of
\* the cache is lower-cased and its entry is the result the grammar gives for
\* the key, None for a value that is no colour; a call of Color.parse returns
\* the result of the grammar for its lower-cased argument, cached before or
\* not, and leaves it cached; a key leaves the cache only in a call of
\* Color.clear_cache.
C21_CacheIsTransparent ==
    [][/\ CacheHoldsGrammar(cache')
       /\ probe'.op = "Color.parse"
             => /\ probe'.ret = Color_compute(lower(probe'.raw))
                /\ Str(lower(probe'.raw)) \in DOMAIN cache'
                /\ cache'[Str(lower(probe'.raw))] = probe'.ret
       /\ probe'.op # "Color.clear_cache"
             => \A k \in DOMAIN cache : k \in DOMAIN cache' /\ cache'[k] = cache[k]
      ]_vars

\* Color.parse("RED") was answered from the entry that an earlier call with
\* another spelling had made, beside the cached None of a value that is no
\* colour.
C21_Witness ==
    /\ probe.op = "Color.parse" /\ probe.raw = <<"R","E","D">>
    /\ probe.ret = Some(<<"name", <<"3","1">>, <<"4","1">>>>)
    /\ DOMAIN cache = {"red", "pink"}
    /\ cache["pink"] = None

\* The outcome of the event recorded in e on handlers h, had the colour cache
\* been empty.
AloneOutcome(h, e) == Dispatch(e.op, h, Color_clear_cache, options, e)

\* C22: of two parsers made from the same registry, a step of one changes no
\* handler of the other and nothing the other has emitted; the colour cache,
\* which both write, changes no answer: whatever the other parser and
\* Color.clear_cache have made of it, each event of this parser gets the
\* fragments, the raise and the handler stacks it gets with an empty cache.
C22_SessionsIsolated ==
    [][/\ ref'.handlers # ref.handlers
             => (handlers' = handlers /\ last' = last /\ opened' = opened)
       /\ (handlers' # handlers \/ last' # last)
             => /\ ref'.handlers = ref.handlers
                /\ last'.sink = AloneOutcome(handlers, last').sink
                /\ last'.raised = AloneOutcome(handlers, last').raised
                /\ handlers' = AloneOutcome(handlers, last').handlers
      ]_vars

\* Both parsers have a tag open, and the cache holds a value that only the
\* other one has used.
C22_Witness ==
    /\ \E t \in vocab : handlers[t].stack # <<>> /\ ref.handlers[t].stack # <<>>
                        /\ handlers[t].state # ref.handlers[t].state
    /\ last.op = "start" /\ ~last.raised
    /\ Str(last.attrs[1].name) = "red"
    /\ DOMAIN cache = {"red", "d07"}

\* The event recorded in e is an open of the alias tag of the weight w.
IsAliasOpenOf(e, w) ==
    /\ e.op \in {"start", "startend"}
    /\ Str(lower(e.name)) = (IF w = "bold" THEN "b" ELSE "l")

\* The outcome of <fw w> on the parser as it is.
FwOpenOutcome(w) ==
    handle_starttag(handlers, cache, options, <<"f","w">>,
                    <<Attr(IF w = "bold" THEN <<"b","o","l","d">>
                           ELSE <<"l","i","g","h","t">>, None)>>, "")

\* C23: an open of b or l that carries an attribute raises, the receiver is
\* not called and no handler changes, that of fw included; an open of b or l
\* without attributes does what <fw bold> or <fw light> does: the same
\* fragment, the same state and stack of the fw handler.
C23_AliasTakesNoAttribute ==
    [][\A w \in {"bold", "light"} :
          /\ (IsAliasOpenOf(last', w) /\ last'.attrs # <<>>)
                => (last'.raised /\ last'.sink = <<>> /\ handlers' = handlers)
          /\ (IsAliasOpenOf(last', w) /\ last'.op = "start" /\ last'.attrs = <<>>
                /\ (last' # last \/ handlers' # handlers))
                => /\ ~last'.raised
                   /\ last'.sink = FwOpenOutcome(w).sink
                   /\ last'.sink = <<ESC \o "[22m" \o ESC \o "["
                                     \o (IF w = "bold" THEN "1" ELSE "2") \o "m">>
                   /\ handlers' = FwOpenOutcome(w).handlers
      ]_vars

\* <b red> was refused inside an open fw tag.
C23_Witness ==
    /\ last.op = "start" /\ Str(lower(last.name)) = "b"
    /\ last.attrs # <<>> /\ last.raised /\ last.sink = <<>>
    /\ handlers["fw"].stack # <<>>

\* The handler of tag t rests on `default`: the bottom of a stack that is not
\* empty is `default`, and over an empty stack the state is None or `default`.
RestsOnDefault(h, t) ==
    /\ h[t].stack # <<>> => h[t].stack[1] = Element_default(elements[t])
    /\ h[t].stack = <<>> => h[t].state \in {None, Some(Element_default(elements[t]))}

\* C24: every handler, that of screen included, rests on `default` in every
\* reachable state; hence an end tag that finds one entry on the stack of its
\* handler emits `default`, whatever was opened and closed before.
C24_StackRestsOnDefault ==
    [][/\ \A t \in ElementTags : RestsOnDefault(handlers', t)
       /\ (last'.op = "end" /\ last'.family # "unknown"
             /\ Len(handlers[last'.family].stack) = 1)
          => /\ last'.sink = <<Element_default(elements[last'.family])>>
             /\ handlers'[last'.family].stack = <<>>
      ]_vars

\* The one open screen tag, which had set a mode or the line wrap, was closed:
\* the close emitted `default`.
C24_Witness ==
    /\ last.op = "end" /\ last.family = "screen"
    /\ last.matched # None /\ last.matched[1].attrs # <<>>
    /\ last.enclosing = None
    /\ last.sink = <<Element_default("ScreenElement")>>
    /\ handlers["screen"].stack = <<>>

\* C25: an open, a close or a self-closing tag changes no handler but the one
\* of its element type (b, l and fw have the one handler of fw), and a tag of
\* an unknown name, text, an entity reference, a character reference, a comment
\* and a declaration change no handler.  So with tags of two types interleaved
\* in any order, a close still emits the code that was in effect before the
\* open it matches.
C25_EventsTouchOwnHandler ==
    [][/\ last'.op \in {"start", "end", "startend"}
             => \A t \in ElementTags :
                    t # last'.family => handlers'[t] = handlers[t]
       /\ last'.op \in {"data", "entityref", "charref", "comment", "decl"}
             => handlers' = handlers
       /\ (last'.op = "end" /\ last'.family \in vocab /\ last'.matched # None)
             => last'.sink =
                  <<IF last'.enclosing # None THEN last'.enclosing[1].code
                    ELSE Element_default(elements[last'.family])>>
      ]_vars

\* <fw bold><u></fw>: the close of fw, with u still open, restored the weight
\* and left the handler of u as it was.
C25_Witness ==
    /\ last.op = "end" /\ last.family = "fw" /\ last.matched # None
    /\ last.sink = <<ESC \o "[22m">>
    /\ handlers["fw"].stack = <<>>
    /\ handlers["u"].stack # <<>> /\ handlers["u"].state = Some(ESC \o "[4m")

\* C26: an open that raises invalid markup changes no handler (every stack and
\* every current code is as before the event) and gives the receiver nothing:
\* for every element, for a screen tag whose second attribute is the one that
\* fails, and for a self-closing tag, whose close is then not executed.
C26_RaisingOpenChangesNothing ==
    [][(last'.op \in {"start", "startend"} /\ last'.raised)
          => /\ handlers' = handlers
             /\ last'.sink = <<>>
      ]_vars

\* <screen wrap=no><screen wrap=no wrap=no/>: the self-closing tag raised on
\* its second attribute, inside an open screen, and the handler of screen is
\* as the first open left it.
C26_Witness ==
    /\ last.op = "startend" /\ last.raised /\ last.family = "screen"
    /\ Len(last.attrs) = 2
    /\ ~screen_attr(last.attrs[1], None, None).raised
    /\ last.sink = <<>>
    /\ handlers["screen"].stack = <<Element_default("ScreenElement")>>
    /\ handlers["screen"].state = Some(ESC \o "[=7h")

\* The attributes of a delivered list that are named n.
Named(attrs, n) == SelectSeq(attrs, LAMBDA a : Str(a.name) = n)

\* The last event is <screen attrs>, opened, with these attributes delivered.
IsScreenOpen(e) == e.op = "start" /\ e.family = "screen"

\* The number a mode attribute stands for, and the value of a wrap attribute.
ModeNumber(a) == ScreenMode_parse(a.value[1])[1]

WrapValue(a) == Boolean_parse(a.value[1])[1]

\* The open fragment of a screen tag: the mode set if mode is given, then the
\* wrap set or the wrap unset if wrap is given.
OpenFragment(attrs) ==
    LET m == Named(attrs, "mode")
        w == Named(attrs, "wrap")
    IN  (IF m # <<>> THEN ESC \o "[=" \o ModeNumber(m[1]) \o "h" ELSE "")
        \o (IF w = <<>> THEN ""
            ELSE IF WrapValue(w[1]) THEN ESC \o "[=7h" ELSE ESC \o "[=7l")

\* The close fragment of a screen tag: the wrap reset if wrap is given, then
\* the mode reset if mode is given.
CloseFragment(attrs) ==
    LET m == Named(attrs, "mode")
        w == Named(attrs, "wrap")
    IN  (IF w # <<>> THEN ESC \o "[=7h" ELSE "")
        \o (IF m # <<>> THEN ESC \o "[=" \o ModeNumber(m[1]) \o "l" ELSE "")

\* C27: a screen open that does not raise emits its open fragment (the mode
\* set ESC[=<n>h if mode is given, then ESC[=7h for a true wrap or ESC[=7l for
\* a false one) and pushes its close fragment (ESC[=7h if wrap is given, true
\* or false, then ESC[=<n>l if mode is given), which is the handler's current
\* code afterwards; with no attributes both fragments are empty.
C27_ScreenFragments ==
    (IsScreenOpen(last) /\ ~last.raised)
       => /\ last.sink = <<OpenFragment(last.attrs)>>
          /\ handlers["screen"].state = Some(CloseFragment(last.attrs))
          /\ last.attrs = <<>> =>
                last.sink = <<"">> /\ handlers["screen"].state = Some("")

\* <screen wrap=no Mode=80x25c>: the open emitted the mode set and then the
\* wrap unset, and pushed the wrap reset and then the mode reset.
C27_Witness ==
    /\ IsScreenOpen(last) /\ ~last.raised
    /\ Len(last.attrs) = 2 /\ Str(last.attrs[1].name) = "wrap"
    /\ last.sink = <<ESC \o "[=3h" \o ESC \o "[=7l">>
    /\ handlers["screen"].state = Some(ESC \o "[=7h" \o ESC \o "[=3l")

\* A delivered attribute list that a screen tag must refuse.
ScreenMustRefuse(attrs) ==
    \/ Len(attrs) > 2
    \/ Len(Named(attrs, "mode")) > 1
    \/ Len(Named(attrs, "wrap")) > 1
    \/ \E i \in 1..Len(attrs) :
          /\ Str(attrs[i].name) \in {"mode", "wrap"}
          /\ attrs[i].value = None
    \/ \E i \in 1..Len(attrs) :
          /\ Str(attrs[i].name) = "mode" /\ attrs[i].value # None
          /\ ScreenMode_parse(attrs[i].value[1]) = None
    \/ \E i \in 1..Len(attrs) :
          /\ Str(attrs[i].name) = "wrap" /\ attrs[i].value # None
          /\ Boolean_parse(attrs[i].value[1]) = None

\* C28: a screen tag raises invalid markup if it has more than two
\* attributes, if mode or wrap appears more than once (also after a first wrap
\* with a word for false), if mode or wrap has no value, or if the value of
\* mode is no screen mode or the value of wrap no boolean; the names count in
\* any letter case, as the tokenizer delivers them in lower case.
C28_ScreenRefuses ==
    (last.family = "screen" /\ last.op \in {"start", "startend"}
        /\ ScreenMustRefuse(last.attrs))
       => last.raised /\ last.sink = <<>>

\* <screen wrap=no WRAP=Yes>: wrap is given twice, the first time with a word
\* for false and the second time in capitals, and the open raised.
C28_Witness ==
    /\ IsScreenOpen(last) /\ last.raised
    /\ last.text = "<screen wrap=no WRAP=Yes>"
    /\ Len(Named(last.attrs, "wrap")) = 2

\* The attributes of a delivered list that are named mode or wrap.
ModeAndWrap(attrs) == SelectSeq(attrs, LAMBDA a : Str(a.name) \in {"mode", "wrap"})

\* C29: on a screen open with at most two attributes, an attribute named
\* neither mode nor wrap changes nothing: the open raises, emits and pushes
\* what the same open without these attributes would; an open with only such
\* attributes raises no error, emits the empty fragment and pushes one stack
\* entry.
C29_OtherNamesIgnored ==
    [][(IsScreenOpen(last') /\ Len(last'.attrs) <= 2)
          => /\ \E o \in {handle_starttag(handlers, cache, options, last'.tag,
                                         ModeAndWrap(last'.attrs), last'.text)} :
                   /\ last'.raised = o.raised
                   /\ last'.sink = o.sink
                   /\ handlers' = o.handlers
             /\ ModeAndWrap(last'.attrs) = <<>>
                   => /\ ~last'.raised
                      /\ last'.sink = <<"">>
                      /\ Len(handlers'["screen"].stack)
                            = Len(handlers["screen"].stack) + 1
                      /\ handlers'["screen"].state = Some("")
      ]_vars

\* <screen red foo=1>: the open, with two attributes of other names, emitted
\* the empty fragment and pushed one entry.
C29_Witness ==
    /\ IsScreenOpen(last) /\ ~last.raised
    /\ last.text = "<screen red foo=1>"
    /\ last.sink = <<"">>
    /\ handlers["screen"].stack = <<Element_default("ScreenElement")>>
    /\ handlers["screen"].state = Some("")

\* A tag name that is not registered, or is registered to an Element.
Concrete(t) == t \notin DOMAIN elements \/ IsElementClass(elements[t])

\* C30: with the registry `elements`, for every tag name, the name that alias
\* resolution gives for a start tag or an end tag is either not registered or
\* registered to an Element and not to an alias; so in every state no start,
\* end or self-closing tag of a registered name is dropped without a call of
\* the receiver or a raise.
C30_AliasesResolveToElements ==
    /\ \A name \in WrittenTags :
          /\ Concrete(resolve_endtag_alias(Str(lower(name))))
          /\ \A attrs \in AttrListsFor(name) :
                \E r \in {resolve_starttag_alias(Str(lower(name)), attrs)} :
                    ~r.raised => Concrete(r.tag)
    /\ (last.op \in {"start", "end", "startend"} /\ last.family # "unknown"
           /\ ~last.raised)
          => Len(last.sink) = 1

\* <l> inside <b>: the alias was resolved to fw, whose handler took the open.
C30_Witness ==
    /\ last.op = "start" /\ Str(last.tag) = "l" /\ ~last.raised
    /\ last.sink = <<ESC \o "[22m" \o ESC \o "[2m">>
    /\ Len(handlers["fw"].stack) = 2

\* A well-formed character reference: decimal digits, or x or X and then
\* hexadecimal digits.
WellFormedRef(name) ==
    /\ name # <<>>
    /\ \/ \A i \in 1..Len(name) : IsDigit(name[i])
       \/ /\ Len(name) >= 2 /\ name[1] \in {"x", "X"}
          /\ \A i \in 2..Len(name) : IsHexDigit(LowerChar(name[i]))

\* The code point a well-formed character reference names.
CodePoint(name) ==
    IF name[1] \in {"x", "X"} THEN int_of(lower(Tail(name)), 16)
    ELSE int_of(name, 10)

\* C33: a character reference that is well formed (decimal digits, or x or X
\* and then hexadecimal digits) never raises and gives the receiver exactly
\* one character, the one with the code point the reference names.
C33_CharRefEmitsCharacter ==
    (last.op = "charref" /\ WellFormedRef(last.name))
       => /\ ~last.raised
          /\ last.sink = <<"U+" \o IntToStr(CodePoint(last.name))>>

\* The name of an attribute is a value of the grammar of the element type:
\* a font weight for fw, a colour for fg and bg.
NameIsValue(family, name) ==
    IF family = "fw" THEN Str(lower(name)) \in DOMAIN FontWeight_weights
    ELSE Color_compute(lower(name)) # None

\* C31: fw, fg and bg read their value from the name of their one attribute
\* and pass over its value part: an open with the attribute name=value does
\* what the open with the bare attribute name does from the same state, and
\* when the name is no value of the grammar it raises, also when the value
\* part is a colour or a weight.
C31_ValuePartIgnored ==
    [][(last'.op = "start" /\ last'.family \in {"fw", "fg", "bg"}
           /\ Len(last'.attrs) = 1)
          => /\ \E o \in {handle_starttag(handlers, cache, options, last'.tag,
                             <<Attr(last'.attrs[1].name, None)>>, last'.text)} :
                   /\ last'.raised = o.raised
                   /\ last'.sink = o.sink
                   /\ handlers' = o.handlers
                   /\ cache' = o.cache
             /\ ~NameIsValue(last'.family, last'.attrs[1].name) => last'.raised
             /\ NameIsValue(last'.family, last'.attrs[1].name) => ~last'.raised
      ]_vars

\* <fg color=red>: the open raised, though its value part is a colour.
C31_Witness ==
    /\ last.op = "start" /\ last.family = "fg" /\ last.raised
    /\ last.text = "<fg color=red>"
    /\ last.attrs = <<Attr(<<"c","o","l","o","r">>, Some(<<"r","e","d">>))>>
    /\ last.sink = <<>>

\* C32: with Color.parse in one thread and Color.clear_cache in another,
\* interleaved statement by statement, every call of parse completes and
\* returns the result of the grammar for its argument: no read of the cache
\* fails on a key that was cleared after parse tested for it or stored it.
C32_ParseSurvivesClear ==
    /\ probe.op # "KeyError"
    /\ probe.op = "Color.parse" => probe.ret = Color_compute(lower(probe.raw))

====
